---- MODULE Spec2Model ----
(***************************************************************************)
(* State-machine model of the Airth agent's memory store (retrieval by     *)
(* keyword relevance, insertion with generated ids and whole-document      *)
(* persistence) and of the news-article SEO selector.                      *)
(*                                                                         *)
(* Python strings are tuples of one-character strings, so that lower(),    *)
(* split(), the substring test `in` and the id format are computed rather  *)
(* than assumed.  Python floats are IEEE-754 doubles: a positive double is *)
(* a record [e, m] whose 53-bit significand is held in three limbs         *)
(* m = <<hi, mid, lo>> of 17, 18 and 18 bits (hi carries the leading one), *)
(* its value being (hi * 2^36 + mid * 2^18 + lo) * 2^(e - 52).  Python     *)
(* dicts are functions whose domain is the set of keys present.            *)
(***************************************************************************)
EXTENDS Integers, Sequences, FiniteSets, TLC

(***************************************************************************)
(* Bounds of the model.                                                    *)
(***************************************************************************)
\* largest number of records the in-memory store may hold
MaxMemories == 3
\* largest `limit` argument passed to retrieve_relevant_memories
MaxLimit == 3
\* largest number of candidate articles handed to the SEO selector
MaxArticles == 3

(***************************************************************************)
(* Strings used as inputs.                                                 *)
(***************************************************************************)
S_mem ==
    <<"m", "e", "m">>
S_mem001 ==
    <<"m", "e", "m", "0", "0", "1">>
S_mem002 ==
    <<"m", "e", "m", "0", "0", "2">>
S_custom ==
    <<"c", "u", "s", "t", "o", "m">>
S_AI_Consciousness_Musings ==
    <<"A", "I", " ", "C", "o", "n", "s", "c", "i", "o", "u", "s", "n", "e", "s", "s", " ", "M", "u", "s", "i", "n", "g", "s">>
S_musings_on_AI ==
    <<"m", "u", "s", "i", "n", "g", "s", " ", "o", "n", " ", "A", "I">>
S_Airth ==
    <<"A", "i", "r", "t", "h">>
S_ai ==
    <<"a", "i">>
S_zen ==
    <<"z", "e", "n">>
S_AI ==
    <<"A", "I">>
S_joy ==
    <<"j", "o", "y">>
S_ai_ai ==
    <<"a", "i", " ", "a", "i">>
S_joy_awe ==
    <<"j", "o", "y", ",", " ", "a", "w", "e">>
S_Zed ==
    <<"Z", "e", "d">>
S_Kai ==
    <<"K", "a", "i">>
S_Joy ==
    <<"J", "o", "y">>
S_calm ==
    <<"c", "a", "l", "m">>
Q_AI_consciousness ==
    <<"A", "I", " ", "c", "o", "n", "s", "c", "i", "o", "u", "s", "n", "e", "s", "s">>
Q_joy_ai ==
    <<"j", "o", "y", " ", " ", "a", "i">>
Q_zz ==
    <<"z", "z">>
Q_AI_Joy_ai ==
    <<"A", "I", " ", "J", "o", "y", " ", "a", "i">>

(***************************************************************************)
(* str.lower(), str.split(), the substring operator `in`, and the format   *)
(* specification {n:03d}.                                                  *)
(***************************************************************************)
\* the lower-case letter of every upper-case letter
LowerOf ==
    [A |-> "a", B |-> "b", C |-> "c", D |-> "d", E |-> "e", F |-> "f",
     G |-> "g", H |-> "h", I |-> "i", J |-> "j", K |-> "k", L |-> "l",
     M |-> "m", N |-> "n", O |-> "o", P |-> "p", Q |-> "q", R |-> "r",
     S |-> "s", T |-> "t", U |-> "u", V |-> "v", W |-> "w", X |-> "x",
     Y |-> "y", Z |-> "z"]

LowerChar(c) ==
    IF c \in DOMAIN LowerOf THEN LowerOf[c] ELSE c

\* the capital letter I with dot above, the one character whose lower-case form
\* has two characters: the letter i and the combining dot above
DottedCapitalI ==
    "U+0130"

CombiningDot ==
    "U+0307"

\* str.lower()
Lower(s) ==
    LET dotted == {i \in 1..Len(s) : s[i] = DottedCapitalI}
        before(i) == i + Cardinality({d \in dotted : d < i})
        src(j) == CHOOSE i \in 1..Len(s) :
                      /\ before(i) <= j
                      /\ j <= before(i) + (IF i \in dotted THEN 1 ELSE 0)
    IN  IF dotted = {}
        THEN SubSeq([i \in 1..Len(s) |-> LowerChar(s[i])], 1, Len(s))
        ELSE SubSeq([j \in 1..(Len(s) + Cardinality(dotted)) |->
                        IF src(j) \notin dotted THEN LowerChar(s[src(j)])
                        ELSE IF j = before(src(j)) THEN "i"
                        ELSE CombiningDot],
                    1, Len(s) + Cardinality(dotted))

IsSpace(c) ==
    c = " "

\* the positions of s at which a whitespace-delimited word starts
WordStarts(s) ==
    {i \in 1..Len(s) : ~IsSpace(s[i]) /\ (i = 1 \/ IsSpace(s[i - 1]))}

\* the last position of the word of s that starts at position i
WordEnd(s, i) ==
    CHOOSE j \in i..Len(s) :
        /\ \A k \in i..j : ~IsSpace(s[k])
        /\ j = Len(s) \/ IsSpace(s[j + 1])

\* str.split(): the whitespace-delimited words of s, in order
Split(s) ==
    LET starts == WordStarts(s)
        nth(n) == CHOOSE i \in starts : Cardinality({j \in starts : j < i}) = n - 1
    IN  [n \in 1..Cardinality(starts) |-> SubSeq(s, nth(n), WordEnd(s, nth(n)))]

\* Python's `term in s` on strings
Contains(term, s) ==
    \E i \in 0..(Len(s) - Len(term)) : SubSeq(s, i + 1, i + Len(term)) = term

DigitChars ==
    <<"0", "1", "2", "3", "4", "5", "6", "7", "8", "9">>

RECURSIVE Digits(_)
Digits(n) ==
    IF n < 10
    THEN <<DigitChars[n + 1]>>
    ELSE Digits(n \div 10) \o <<DigitChars[(n % 10) + 1]>>

RECURSIVE ZeroPad(_, _)
ZeroPad(s, w) ==
    IF Len(s) >= w THEN s ELSE ZeroPad(<<"0">> \o s, w)

\* f"mem{n:03d}"
MemId(n) ==
    S_mem \o ZeroPad(Digits(n), 3)

(***************************************************************************)
(* Python dict access.                                                     *)
(***************************************************************************)
Get(d, k, default) ==
    IF k \in DOMAIN d THEN d[k] ELSE default

(***************************************************************************)
(* IEEE-754 binary64 arithmetic on positive values, round-to-nearest-even. *)
(***************************************************************************)
\* the limbs mid and lo hold LimbBits bits each, hi holds HiBits bits
LimbBits == 18

HiBits == 17

Limb == 2 ^ LimbBits

\* round the significand m of exponent e up by one unit in the last place
RoundUp(e, m) ==
    IF m[3] + 1 < Limb THEN [e |-> e, m |-> <<m[1], m[2], m[3] + 1>>]
    ELSE IF m[2] + 1 < Limb THEN [e |-> e, m |-> <<m[1], m[2] + 1, 0>>]
    ELSE IF m[1] + 1 < 2 ^ HiBits THEN [e |-> e, m |-> <<m[1] + 1, 0, 0>>]
    ELSE [e |-> e + 1, m |-> <<2 ^ (HiBits - 1), 0, 0>>]

\* round to nearest, ties to even: cmp is the sign of (discarded part - half)
RoundNearest(e, m, cmp) ==
    IF cmp > 0 \/ (cmp = 0 /\ m[3] % 2 = 1)
    THEN RoundUp(e, m)
    ELSE [e |-> e, m |-> m]

\* the k with 2^k <= n / d < 2^(k+1), for positive integers n, d below 2^12
ExpOf(n, d) ==
    CHOOSE k \in -12..12 :
        IF k >= 0
        THEN d * 2 ^ k <= n /\ n < d * 2 ^ (k + 1)
        ELSE d <= n * 2 ^ (0 - k) /\ n * 2 ^ (0 - k) < 2 * d

\* the double nearest to the rational n / d (n, d positive integers below
\* 2^12): float(n) / float(d), by long division limb by limb
FloatDiv(n, d) ==
    LET k   == ExpOf(n, d)
        nn  == IF k < 0 THEN n * 2 ^ (0 - k) ELSE n
        dd  == IF k > 0 THEN d * 2 ^ k ELSE d
        hi  == (nn * 2 ^ (HiBits - 1)) \div dd
        r1  == (nn * 2 ^ (HiBits - 1)) % dd
        mid == (r1 * Limb) \div dd
        r2  == (r1 * Limb) % dd
        lo  == (r2 * Limb) \div dd
        r3  == (r2 * Limb) % dd
    IN  RoundNearest(k, <<hi, mid, lo>>,
                     IF 2 * r3 > dd THEN 1 ELSE IF 2 * r3 = dd THEN 0 ELSE -1)

\* float(n) for a positive integer n below 2^12
FloatOfInt(n) ==
    FloatDiv(n, 1)

\* float(r) * x for a positive integer r below 2^12 and a positive double x
FloatMulInt(r, x) ==
    LET p0   == r * x.m[3]
        p1   == r * x.m[2] + (p0 \div Limb)
        p2   == r * x.m[1] + (p1 \div Limb)
        l0   == p0 % Limb
        l1   == p1 % Limb
        \* the product has 53 + k bits
        k    == CHOOSE j \in 0..13 :
                    2 ^ (HiBits - 1 + j) <= p2 /\ p2 < 2 ^ (HiBits + j)
        tail == l0 % (2 ^ k)
        hi   == p2 \div (2 ^ k)
        mid  == (p2 % (2 ^ k)) * 2 ^ (LimbBits - k) + (l1 \div (2 ^ k))
        lo   == (l1 % (2 ^ k)) * 2 ^ (LimbBits - k) + (l0 \div (2 ^ k))
    IN  RoundNearest(x.e + k, <<hi, mid, lo>>,
                     IF k = 0 THEN -1
                     ELSE IF tail > 2 ^ (k - 1) THEN 1
                     ELSE IF tail = 2 ^ (k - 1) THEN 0 ELSE -1)

\* x < y on positive doubles
FloatLess(x, y) ==
    \/ x.e < y.e
    \/ /\ x.e = y.e
       /\ \/ x.m[1] < y.m[1]
          \/ x.m[1] = y.m[1] /\ x.m[2] < y.m[2]
          \/ x.m[1] = y.m[1] /\ x.m[2] = y.m[2] /\ x.m[3] < y.m[3]

\* 2 * x: the exponent moves, the significand does not
FloatDouble(x) ==
    [e |-> x.e + 1, m |-> x.m]

\* the double just above x
FloatSucc(x) ==
    RoundUp(x.e, x.m)

\* the double just below x
FloatPred(x) ==
    IF x.m[3] > 0 THEN [e |-> x.e, m |-> <<x.m[1], x.m[2], x.m[3] - 1>>]
    ELSE IF x.m[2] > 0 THEN [e |-> x.e, m |-> <<x.m[1], x.m[2] - 1, Limb - 1>>]
    ELSE IF x.m[1] > 2 ^ (HiBits - 1)
         THEN [e |-> x.e, m |-> <<x.m[1] - 1, Limb - 1, Limb - 1>>]
    ELSE [e |-> x.e - 1, m |-> <<2 ^ HiBits - 1, Limb - 1, Limb - 1>>]

(***************************************************************************)
(* The memory store: AirthAgent.memories, the memories.json document and   *)
(* the calls retrieve_relevant_memories and add_new_memory.                *)
(***************************************************************************)
VARIABLES
    memories,      \* self.memories: [version, last_updated, memories]
    disk,          \* the content of data/memories.json
    clock,         \* datetime.now(): the next reading of the clock
    pc,            \* where the agent is: idle, inside add_new_memory, returned
    memory_data,   \* <<d>>: the argument of the add_new_memory call in progress
    argument,      \* history: <<d>>, memory_data as the caller passed it
    added,         \* <<>> or <<b>>: the value add_new_memory returned
    failed_at,     \* the line at which add_new_memory raised ("" if it did not)
    old_memories,  \* history: self.memories["memories"] when the current call began
    old_disk,      \* history: the file content when the current call began
    query,         \* the query of the last retrieve_relevant_memories call
    limit,         \* its limit
    relevant_memories, \* its local list relevant_memories, as sorted
    result         \* its result: the positions in the store of the records returned

memvars ==
    <<memories, disk, clock, pc, memory_data, argument, added, failed_at,
      old_memories, old_disk, query, limit, relevant_memories, result>>

\* the variables of a retrieve_relevant_memories call
retvars ==
    <<query, limit, relevant_memories, result>>

\* the default meta block of add_new_memory
DefaultMeta ==
    [priority_level |-> 5, recall_frequency |-> "medium", sensory_tags |-> <<>>]

\* memory_data arguments passed to add_new_memory
MemA ==
    [title |-> S_AI_Consciousness_Musings, content |-> S_musings_on_AI,
     associated_entities |-> <<S_Airth>>, emotional_signature |-> <<>>,
     meta |-> [priority_level |-> 8]]

MemB ==
    [title |-> S_ai, content |-> S_zen, meta |-> [priority_level |-> 4]]

MemC ==
    [id |-> S_mem002, title |-> S_AI, content |-> S_joy,
     meta |-> [priority_level |-> 8]]

MemD ==
    [content |-> S_ai_ai, emotional_signature |-> S_joy_awe,
     associated_entities |-> <<S_Zed, S_Kai, S_Airth>>]

MemE ==
    [id |-> S_custom, title |-> S_Joy, content |-> S_calm,
     meta |-> [recall_frequency |-> "high"]]

MemoryInputs ==
    {MemA, MemB, MemC, MemD, MemE}

\* queries passed to retrieve_relevant_memories
Queries ==
    {Q_AI_consciousness, Q_joy_ai, Q_AI_Joy_ai, Q_zz, <<>>}

\* a file is the chunks json.dump has written so far: the document header
\* (version, last_updated), the records, and the closing brackets
EmptyFile ==
    [hdr |-> <<>>, recs |-> <<>>, end |-> FALSE]

\* a dict as a JSON object: its members, each a key with its value
JsonObject(d) ==
    {<<k, d[k]>> : k \in DOMAIN d}

\* the encoding of a record that leaves out the nested meta object
JsonDumpRecord_WithoutMeta(rec) ==
    {<<k, rec[k]>> : k \in DOMAIN rec \ {"meta"}}

\* json.dump of one record: an object whose member "meta" is an object
JsonDumpRecord(rec) ==
    {<<k, IF k = "meta" THEN JsonObject(rec[k]) ELSE rec[k]>> : k \in DOMAIN rec}

\* a JSON object as a dict
JsonLoadObject(obj) ==
    [k \in {m[1] : m \in obj} |-> (CHOOSE m \in obj : m[1] = k)[2]]

\* json.load of one record
JsonLoadRecord(obj) ==
    LET d == JsonLoadObject(obj)
    IN  [k \in DOMAIN d |-> IF k = "meta" THEN JsonLoadObject(d[k]) ELSE d[k]]

\* the file that holds the whole document doc
FileOf(doc) ==
    [hdr |-> <<[version |-> doc.version, last_updated |-> doc.last_updated]>>,
     recs |-> SubSeq([i \in 1..Len(doc.memories) |->
                         JsonDumpRecord(doc.memories[i])], 1, Len(doc.memories)),
     end |-> TRUE]

\* json.load succeeds on a complete document only
Parseable(file) ==
    file.hdr # <<>> /\ file.end

\* _load_memories: the document, or the empty store when loading fails
LoadMemories(file, now) ==
    IF Parseable(file)
    THEN [version |-> file.hdr[1].version,
          last_updated |-> file.hdr[1].last_updated,
          memories |-> SubSeq([i \in 1..Len(file.recs) |->
                                  JsonLoadRecord(file.recs[i])], 1, Len(file.recs))]
    ELSE [version |-> "1.0.0", last_updated |-> now, memories |-> <<>>]

\* documents found on disk when the agent is constructed
InitialDocs ==
    { [version |-> "1.0.0", last_updated |-> 0, memories |-> <<>>],
      [version |-> "1.0.0", last_updated |-> 0,
       memories |-> <<[id |-> S_mem001, timestamp |-> 0] @@ MemA>>],
      [version |-> "1.0.0", last_updated |-> 0,
       memories |-> <<[id |-> S_mem002, timestamp |-> 0,
                       title |-> S_AI, content |-> S_joy]>>] }

InitialFiles ==
    {FileOf(doc) : doc \in InitialDocs} \cup {EmptyFile}

(***************************************************************************)
(* retrieve_relevant_memories                                              *)
(***************************************************************************)
EmptyDict ==
    [k \in {} |-> 0]

\* the terms of the query as they are typed: set(query.split())
QueryTerms_CaseSensitive(q) ==
    {Split(q)[i] : i \in 1..Len(Split(q))}

\* set(query.lower().split())
QueryTerms(q) ==
    {Split(Lower(q))[i] : i \in 1..Len(Split(Lower(q)))}

\* TermScore with the operands of the emotional-signature test swapped
TermScore_SwappedOperands(term, memory) ==
    LET content  == Lower(Get(memory, "content", <<>>))
        title    == Lower(Get(memory, "title", <<>>))
        ents     == Get(memory, "associated_entities", <<>>)
        entities == [i \in 1..Len(ents) |-> Lower(ents[i])]
        emotional_signature == Lower(Get(memory, "emotional_signature", <<>>))
    IN  (IF Contains(term, content) THEN 2 ELSE 0)
      + (IF Contains(term, title) THEN 3 ELSE 0)
      + (IF \E i \in 1..Len(entities) : Contains(term, entities[i]) THEN 2 ELSE 0)
      + (IF Contains(emotional_signature, term) THEN 1 ELSE 0)

\* TermScore with the entity test an equality instead of a substring test
TermScore_EntityEquality(term, memory) ==
    LET content  == Lower(Get(memory, "content", <<>>))
        title    == Lower(Get(memory, "title", <<>>))
        ents     == Get(memory, "associated_entities", <<>>)
        entities == [i \in 1..Len(ents) |-> Lower(ents[i])]
        emotional_signature == Lower(Get(memory, "emotional_signature", <<>>))
    IN  (IF Contains(term, content) THEN 2 ELSE 0)
      + (IF Contains(term, title) THEN 3 ELSE 0)
      + (IF \E i \in 1..Len(entities) : term = entities[i] THEN 2 ELSE 0)
      + (IF Contains(term, emotional_signature) THEN 1 ELSE 0)

\* TermScore with the entity points given for every entity that matches
TermScore_PerEntity(term, memory) ==
    LET content  == Lower(Get(memory, "content", <<>>))
        title    == Lower(Get(memory, "title", <<>>))
        ents     == Get(memory, "associated_entities", <<>>)
        entities == [i \in 1..Len(ents) |-> Lower(ents[i])]
        emotional_signature == Lower(Get(memory, "emotional_signature", <<>>))
    IN  (IF Contains(term, content) THEN 2 ELSE 0)
      + (IF Contains(term, title) THEN 3 ELSE 0)
      + 2 * Cardinality({i \in 1..Len(entities) : Contains(term, entities[i])})
      + (IF Contains(term, emotional_signature) THEN 1 ELSE 0)

\* the points one query term earns on one memory
TermScore(term, memory) ==
    LET content  == Lower(Get(memory, "content", <<>>))
        title    == Lower(Get(memory, "title", <<>>))
        ents     == Get(memory, "associated_entities", <<>>)
        entities == [i \in 1..Len(ents) |-> Lower(ents[i])]
        emotional_signature == Lower(Get(memory, "emotional_signature", <<>>))
    IN  (IF Contains(term, content) THEN 2 ELSE 0)
      + (IF Contains(term, title) THEN 3 ELSE 0)
      + (IF \E i \in 1..Len(entities) : Contains(term, entities[i]) THEN 2 ELSE 0)
      + (IF Contains(term, emotional_signature) THEN 1 ELSE 0)

RECURSIVE RawScore(_, _)
\* relevance_score after the loop over query_terms
RawScore(terms, memory) ==
    IF terms = {}
    THEN 0
    ELSE LET term == CHOOSE t \in terms : TRUE
         IN  TermScore(term, memory) + RawScore(terms \ {term}, memory)

\* memory.get("meta", {}).get("priority_level", 5)
Priority(memory) ==
    Get(Get(memory, "meta", EmptyDict), "priority_level", 5)

\* the scaling with the ratio upside down: relevance_score *= (5 / priority)
ScaledScore_InvertedRatio(raw, priority) ==
    FloatMulInt(raw, FloatDiv(5, priority))

\* relevance_score *= (priority / 5), for a positive relevance_score
ScaledScore(raw, priority) ==
    FloatMulInt(raw, FloatDiv(priority, 5))

\* relevant_memories before the sort: one entry per memory whose raw score is
\* positive, in store order; "memory" is the position of the record in the store
RelevantMemories(all_memories, q) ==
    LET terms   == QueryTerms(q)
        raw     == [i \in 1..Len(all_memories) |-> RawScore(terms, all_memories[i])]
        Hit(i)  == raw[i] > 0
        hits    == SelectSeq([i \in 1..Len(all_memories) |-> i], Hit)
    IN  [n \in 1..Len(hits) |->
            [memory |-> hits[n],
             relevance |-> ScaledScore(raw[hits[n]], Priority(all_memories[hits[n]]))]]

\* an insertion that is not stable: x goes before the entries of equal relevance
InsertDesc_Unstable(sorted, x) ==
    LET k == Cardinality({i \in 1..Len(sorted) :
                              FloatLess(x.relevance, sorted[i].relevance)})
    IN  SubSeq(sorted, 1, k) \o <<x>> \o SubSeq(sorted, k + 1, Len(sorted))

\* one insertion of list.sort(key = relevance, reverse = True): x goes behind
\* every entry whose relevance is not below its own
InsertDesc(sorted, x) ==
    LET k == Cardinality({i \in 1..Len(sorted) :
                              ~FloatLess(sorted[i].relevance, x.relevance)})
    IN  SubSeq(sorted, 1, k) \o <<x>> \o SubSeq(sorted, k + 1, Len(sorted))

RECURSIVE SortDesc(_)
\* relevant_memories.sort(key=lambda x: x["relevance"], reverse=True)
SortDesc(list) ==
    IF list = <<>>
    THEN <<>>
    ELSE InsertDesc(SortDesc(SubSeq(list, 1, Len(list) - 1)), list[Len(list)])

\* list[:n] for n >= 0
Slice(list, n) ==
    SubSeq(list, 1, IF n < Len(list) THEN n ELSE Len(list))

\* lines 209-251: relevant_memories after the sort ([] for an empty store,
\* where the function returns early)
SortedRelevantMemories(all_memories, q) ==
    IF all_memories = <<>>
    THEN <<>>
    ELSE SortDesc(RelevantMemories(all_memories, q))

\* line 252: [item["memory"] for item in relevant_memories[:limit]], the
\* records as their positions in the store (the code returns the stored dicts)
TopMemories(sorted, lim) ==
    [n \in 1..Len(Slice(sorted, lim)) |-> Slice(sorted, lim)[n].memory]

Retrieve(q, lim) ==
    /\ pc = "idle"
    /\ query' = q
    /\ limit' = lim
    /\ relevant_memories' =
           SortedRelevantMemories(Get(memories, "memories", <<>>), q)
    /\ result' = TopMemories(relevant_memories', lim)
    /\ pc' = "returned"
    /\ added' = <<>>
    /\ failed_at' = ""
    /\ UNCHANGED <<memories, disk, clock, memory_data, argument,
                   old_memories, old_disk>>

(***************************************************************************)
(* add_new_memory                                                          *)
(***************************************************************************)
\* [m.get("id", "") for m in all_memories]
ExistingIds(all_memories) ==
    [i \in 1..Len(all_memories) |-> Get(all_memories[i], "id", <<>>)]

InList(v, list) ==
    \E i \in 1..Len(list) : list[i] = v

\* the id generation without the uniqueness loop
ProbeId_NoLoop(existing_ids, memory_count) ==
    MemId(memory_count + 1)

RECURSIVE ProbeId(_, _)
\* the while loop: count up until the id is not taken
ProbeId(existing_ids, memory_count) ==
    IF InList(MemId(memory_count + 1), existing_ids)
    THEN ProbeId(existing_ids, memory_count + 1)
    ELSE MemId(memory_count + 1)

\* new_id
NewId(existing_ids) ==
    ProbeId(existing_ids, Len(existing_ids))

\* d[k] = v unless k is already a key of d
SetDefault(d, k, v) ==
    IF k \in DOMAIN d THEN d ELSE d @@ (k :> v)

\* lines 266-290: memory_data with the id, timestamp and meta it lacked
WithDefaults(all_memories, d, now) ==
    LET new_id == NewId(ExistingIds(all_memories))
        d1 == SetDefault(d, "id", new_id)
        d2 == SetDefault(d1, "timestamp", now)
    IN  SetDefault(d2, "meta", DefaultMeta)

\* the time of the second datetime.now(), at line 295
LastUpdatedAt(d, now) ==
    IF "timestamp" \in DOMAIN d THEN now ELSE now + 1

\* the insert with the new record put in front of the list
Add_Prepare_Prepends(d) ==
    /\ pc = "idle"
    /\ Len(Get(memories, "memories", <<>>)) < MaxMemories
    /\ LET all_memories == Get(memories, "memories", <<>>)
           d3 == WithDefaults(all_memories, d, clock)
           t  == LastUpdatedAt(d, clock)
       IN  /\ memory_data' = <<d3>>
           /\ argument' = <<d>>
           /\ memories' = [memories EXCEPT !.memories = <<d3>> \o all_memories,
                                           !.last_updated = t]
           /\ clock' = t + 1
           /\ old_memories' = all_memories
    /\ old_disk' = disk
    /\ pc' = "open"
    /\ added' = <<>>
    /\ failed_at' = ""
    /\ UNCHANGED <<disk, retvars>>

\* lines 264-295: the id, the defaults, the append and last_updated
Add_Prepare(d) ==
    /\ pc = "idle"
    /\ Len(Get(memories, "memories", <<>>)) < MaxMemories
    /\ LET all_memories == Get(memories, "memories", <<>>)
           d3 == WithDefaults(all_memories, d, clock)
           t  == LastUpdatedAt(d, clock)
       IN  /\ memory_data' = <<d3>>
           /\ argument' = <<d>>
           /\ memories' = [memories EXCEPT !.memories = Append(all_memories, d3),
                                           !.last_updated = t]
           /\ clock' = t + 1
           /\ old_memories' = all_memories
    /\ old_disk' = disk
    /\ pc' = "open"
    /\ added' = <<>>
    /\ failed_at' = ""
    /\ UNCHANGED <<disk, retvars>>

\* line 300: open(memories_path, 'w') truncates the file
Add_Open ==
    /\ pc = "open"
    /\ disk' = EmptyFile
    /\ pc' = "dump"
    /\ UNCHANGED <<memories, clock, memory_data, argument, added, failed_at,
                   old_memories, old_disk, retvars>>

\* lines 306-308: the except clause
AddRaises(line) ==
    /\ added' = <<FALSE>>
    /\ failed_at' = line
    /\ pc' = "returned"
    /\ UNCHANGED <<memories, disk, clock, memory_data, argument,
                   old_memories, old_disk, retvars>>

\* line 300 raises: the file cannot be opened for writing
Add_OpenFails ==
    /\ pc = "open"
    /\ AddRaises("open")

\* line 301: json.dump writes the document chunk by chunk
Add_DumpChunk ==
    /\ pc = "dump"
    /\ IF disk.hdr = <<>>
       THEN /\ disk' = [disk EXCEPT !.hdr = FileOf(memories).hdr]
            /\ pc' = "dump"
       ELSE IF Len(disk.recs) < Len(memories.memories)
       THEN /\ disk' = [disk EXCEPT !.recs =
                           Append(@, JsonDumpRecord(
                                         memories.memories[Len(disk.recs) + 1]))]
            /\ pc' = "dump"
       ELSE /\ disk' = [disk EXCEPT !.end = TRUE]
            /\ pc' = "log"
    /\ UNCHANGED <<memories, clock, memory_data, argument, added, failed_at,
                   old_memories, old_disk, retvars>>

\* line 301 raises part-way: the chunks written so far stay in the file
Add_DumpFails ==
    /\ pc = "dump"
    /\ AddRaises("dump")

\* lines 303-304: the log line reads memory_data['title'], then return True
Add_Log ==
    /\ pc = "log"
    /\ IF "title" \in DOMAIN memory_data[1]
       THEN /\ added' = <<TRUE>>
            /\ failed_at' = ""
            /\ pc' = "returned"
            /\ UNCHANGED <<memories, disk, clock, memory_data, argument,
                           old_memories, old_disk, retvars>>
       ELSE AddRaises("log")

\* the caller takes the value returned and goes on
Return ==
    /\ pc = "returned"
    /\ pc' = "idle"
    /\ added' = <<>>
    /\ failed_at' = ""
    /\ memory_data' = <<>>
    /\ argument' = <<>>
    /\ query' = <<>>
    /\ limit' = 0
    /\ relevant_memories' = <<>>
    /\ result' = <<>>
    /\ old_memories' = Get(memories, "memories", <<>>)
    /\ old_disk' = disk
    /\ UNCHANGED <<memories, disk, clock>>

(***************************************************************************)
(* The article SEO selector: generate_seo_optimized_news_content.          *)
(***************************************************************************)
VARIABLES
    articles,         \* the candidate list handed to the selector
    geo_target,       \* the country code, <<>> for None
    scored_articles,  \* the list of (score, article) pairs after the sort
    best,             \* <<>> for None, else <<i>>: articles[i] was returned
    seo_pc            \* "call" before the selector runs, "done" after

seovars ==
    <<articles, geo_target, scored_articles, best, seo_pc>>

\* get_trending_tech_topics()
TrendingTopics ==
    << <<"a", "r", "t", "i", "f", "i", "c", "i", "a", "l", " ", "i", "n",
       "t", "e", "l", "l", "i", "g", "e", "n", "c", "e">>,
       <<"m", "a", "c", "h", "i", "n", "e", " ", "l", "e", "a", "r", "n",
       "i", "n", "g">>,
       <<"b", "l", "o", "c", "k", "c", "h", "a", "i", "n", " ", "t", "e",
       "c", "h", "n", "o", "l", "o", "g", "y">>,
       <<"c", "y", "b", "e", "r", "s", "e", "c", "u", "r", "i", "t", "y">>,
       <<"d", "i", "g", "i", "t", "a", "l", " ", "t", "r", "a", "n", "s",
       "f", "o", "r", "m", "a", "t", "i", "o", "n">>,
       <<"m", "e", "t", "a", "v", "e", "r", "s", "e">>,
       <<"a", "u", "g", "m", "e", "n", "t", "e", "d", " ", "r", "e", "a",
       "l", "i", "t", "y">>,
       <<"c", "r", "y", "p", "t", "o", "c", "u", "r", "r", "e", "n", "c",
       "y">>,
       <<"s", "u", "s", "t", "a", "i", "n", "a", "b", "l", "e", " ", "t",
       "e", "c", "h">>,
       <<"5", "G", " ", "t", "e", "c", "h", "n", "o", "l", "o", "g", "y">>,
       <<"q", "u", "a", "n", "t", "u", "m", " ", "c", "o", "m", "p", "u",
       "t", "i", "n", "g">>,
       <<"e", "d", "g", "e", " ", "c", "o", "m", "p", "u", "t", "i", "n",
       "g">>,
       <<"I", "o", "T">>,
       <<"r", "o", "b", "o", "t", "i", "c", "s">>,
       <<"d", "i", "g", "i", "t", "a", "l", " ", "t", "w", "i", "n", "s">>,
       <<"e", "x", "t", "e", "n", "d", "e", "d", " ", "r", "e", "a", "l",
       "i", "t", "y">>,
       <<"n", "e", "u", "r", "a", "l", " ", "n", "e", "t", "w", "o", "r",
       "k", "s">> >>

\* the geo_keywords table of get_geo_specific_keywords: <<code, keywords>>
GeoKeywordTable ==
    << << <<"U", "S">>,
          << <<"U", "n", "i", "t", "e", "d", " ", "S", "t", "a", "t", "e",
             "s">>,
             <<"U", "S", "A">>,
             <<"A", "m", "e", "r", "i", "c", "a", "n">>,
             <<"U", ".", "S", ".">> >> >>,
       << <<"U", "K">>,
          << <<"U", "n", "i", "t", "e", "d", " ", "K", "i", "n", "g", "d",
             "o", "m">>,
             <<"B", "r", "i", "t", "a", "i", "n">>,
             <<"B", "r", "i", "t", "i", "s", "h">>,
             <<"U", "K">> >> >>,
       << <<"C", "A">>,
          << <<"C", "a", "n", "a", "d", "a">>,
             <<"C", "a", "n", "a", "d", "i", "a", "n">> >> >>,
       << <<"A", "U">>,
          << <<"A", "u", "s", "t", "r", "a", "l", "i", "a">>,
             <<"A", "u", "s", "t", "r", "a", "l", "i", "a", "n">> >> >>,
       << <<"I", "N">>,
          << <<"I", "n", "d", "i", "a">>,
             <<"I", "n", "d", "i", "a", "n">> >> >>,
       << <<"J", "P">>,
          << <<"J", "a", "p", "a", "n">>,
             <<"J", "a", "p", "a", "n", "e", "s", "e">> >> >>,
       << <<"D", "E">>,
          << <<"G", "e", "r", "m", "a", "n", "y">>,
             <<"G", "e", "r", "m", "a", "n">> >> >>,
       << <<"F", "R">>,
          << <<"F", "r", "a", "n", "c", "e">>,
             <<"F", "r", "e", "n", "c", "h">> >> >>,
       << <<"N", "Z">>,
          << <<"N", "e", "w", " ", "Z", "e", "a", "l", "a", "n", "d">>,
             <<"K", "i", "w", "i">> >> >>,
       << <<"I", "T">>,
          << <<"I", "t", "a", "l", "y">>,
             <<"I", "t", "a", "l", "i", "a", "n">> >> >>,
       << <<"E", "S">>,
          << <<"S", "p", "a", "i", "n">>,
             <<"S", "p", "a", "n", "i", "s", "h">> >> >>,
       << <<"B", "R">>,
          << <<"B", "r", "a", "z", "i", "l">>,
             <<"B", "r", "a", "z", "i", "l", "i", "a", "n">> >> >> >>

A_Robotics_and_IoT ==
    <<"R", "o", "b", "o", "t", "i", "c", "s", " ", "a", "n", "d", " ", "I",
    "o", "T">>

A_metaverse_in_the_USA ==
    <<"m", "e", "t", "a", "v", "e", "r", "s", "e", " ", "i", "n", " ", "t",
    "h", "e", " ", "U", "S", "A">>

A_Local_news ==
    <<"L", "o", "c", "a", "l", " ", "n", "e", "w", "s">>

A_Nothing_new ==
    <<"N", "o", "t", "h", "i", "n", "g", " ", "n", "e", "w">>

A_Quantum ==
    <<"Q", "u", "a", "n", "t", "u", "m", " ", "c", "o", "m", "p", "u", "t",
    "i", "n", "g", ",", " ", "I", "o", "T", ",", " ", "r", "o", "b", "o",
    "t", "i", "c", "s">>

A_img ==
    <<"h", "t", "t", "p", ":", "/", "/", "i", "m", "g">>

A_American_robotics ==
    <<"A", "m", "e", "r", "i", "c", "a", "n", " ", "r", "o", "b", "o", "t",
    "i", "c", "s">>

A_body ==
    <<"b", "o", "d", "y">>

G_us ==
    <<"u", "s">>

G_xx ==
    <<"x", "x">>

G_Ne ==
    <<"N", "e">>

\* candidate articles
ArtNoDescription ==
    [title |-> A_Quantum, image_url |-> A_img]

ArtEmptyTitle ==
    [title |-> <<>>, description |-> A_metaverse_in_the_USA]

ArtPlain ==
    [title |-> A_Local_news, description |-> A_Nothing_new]

ArtTrend ==
    [title |-> A_Robotics_and_IoT, description |-> A_metaverse_in_the_USA,
     image_url |-> A_img, content |-> A_body]

ArtGeo ==
    [title |-> A_American_robotics, description |-> A_Nothing_new]

\* another article without topics, keywords, image or content
ArtQuiet ==
    [title |-> A_Nothing_new, description |-> A_Local_news]

ArticlePool ==
    {ArtNoDescription, ArtEmptyTitle, ArtPlain, ArtQuiet, ArtTrend, ArtGeo}

GeoTargets ==
    {<<>>, G_us, G_xx, G_Ne}

UpperChar(c) ==
    IF \E u \in DOMAIN LowerOf : LowerOf[u] = c
    THEN CHOOSE u \in DOMAIN LowerOf : LowerOf[u] = c
    ELSE c

\* str.upper()
Upper(s) ==
    SubSeq([i \in 1..Len(s) |-> UpperChar(s[i])], 1, Len(s))

\* bool(d.get(k)) for a string-valued key
Truthy(d, k) ==
    k \in DOMAIN d /\ d[k] # <<>>

\* the lookup with the code as passed: geo_keywords.get(country_code, ...)
GetGeoSpecificKeywords_NoUpper(country_code) ==
    IF \E i \in 1..Len(GeoKeywordTable) : GeoKeywordTable[i][1] = country_code
    THEN GeoKeywordTable[CHOOSE i \in 1..Len(GeoKeywordTable) :
                             GeoKeywordTable[i][1] = country_code][2]
    ELSE <<country_code>>

\* geo_keywords.get(country_code.upper(), [country_code])
GetGeoSpecificKeywords(country_code) ==
    IF \E i \in 1..Len(GeoKeywordTable) : GeoKeywordTable[i][1] = Upper(country_code)
    THEN GeoKeywordTable[CHOOSE i \in 1..Len(GeoKeywordTable) :
                             GeoKeywordTable[i][1] = Upper(country_code)][2]
    ELSE <<country_code>>

\* how many of the keywords occur, lower-cased, in text
Matches(keywords, text) ==
    Cardinality({i \in 1..Len(keywords) : Contains(Lower(keywords[i]), text)})

\* the trending-topic part of the score (lines 206-210)
TrendingScore(article_title, article_description) ==
    5 * Matches(TrendingTopics, article_title)
      + 3 * Matches(TrendingTopics, article_description)

\* the geo-targeting part of the score (lines 213-220)
GeoScore(geo, article_title, article_description) ==
    IF geo # <<>>
    THEN 4 * Matches(GetGeoSpecificKeywords(geo), article_title)
       + 2 * Matches(GetGeoSpecificKeywords(geo), article_description)
    ELSE 0

\* the title-length bonus (lines 223-224)
TitleLengthBonus(article_title) ==
    IF Len(article_title) >= 30 /\ Len(article_title) <= 60 THEN 2 ELSE 0

\* the featured-image bonus (lines 226-227)
ImageBonus(article) ==
    IF Truthy(article, "image_url") THEN 3 ELSE 0

\* len(article.get("content", "") or article.get("description", ""))
ContentLength(article) ==
    IF Get(article, "content", <<>>) # <<>>
    THEN Len(article["content"])
    ELSE Len(Get(article, "description", <<>>))

\* the content-length bonus when the bands are tested lowest first
ContentLengthBonus_LowestBandFirst(content_length) ==
    IF content_length > 400 THEN 1
    ELSE IF content_length > 800 THEN 3
    ELSE IF content_length > 1500 THEN 5
    ELSE 0

\* the content-length bonus (lines 231-236)
ContentLengthBonus(content_length) ==
    IF content_length > 1500 THEN 5
    ELSE IF content_length > 800 THEN 3
    ELSE IF content_length > 400 THEN 1
    ELSE 0

\* the score the loop body (lines 201-236) gives one valid article
SeoScore(article, geo) ==
    LET article_title == Lower(Get(article, "title", <<>>))
        article_description == Lower(Get(article, "description", <<>>))
    IN  TrendingScore(article_title, article_description)
      + GeoScore(geo, article_title, article_description)
      + TitleLengthBonus(article_title)
      + ImageBonus(article)
      + ContentLengthBonus(ContentLength(article))

\* valid_articles when the filter looks at the title alone
ValidArticles_TitleOnly(arts) ==
    LET Valid(i) == Truthy(arts[i], "title")
    IN  SelectSeq([i \in 1..Len(arts) |-> i], Valid)

\* valid_articles when the filter accepts a title or a description
ValidArticles_TitleOrDescription(arts) ==
    LET Valid(i) == Truthy(arts[i], "title") \/ Truthy(arts[i], "description")
    IN  SelectSeq([i \in 1..Len(arts) |-> i], Valid)

\* valid_articles, as positions in the candidate list
ValidArticles(arts) ==
    LET Valid(i) == Truthy(arts[i], "title") /\ Truthy(arts[i], "description")
    IN  SelectSeq([i \in 1..Len(arts) |-> i], Valid)

\* an insertion that is not stable: x goes before the pairs of equal score
InsertByScore_Unstable(sorted, x) ==
    LET k == Cardinality({i \in 1..Len(sorted) : sorted[i].score > x.score})
    IN  SubSeq(sorted, 1, k) \o <<x>> \o SubSeq(sorted, k + 1, Len(sorted))

\* one insertion of list.sort(reverse=True, key=score): x goes behind every
\* pair whose score is not below its own
InsertByScore(sorted, x) ==
    LET k == Cardinality({i \in 1..Len(sorted) : sorted[i].score >= x.score})
    IN  SubSeq(sorted, 1, k) \o <<x>> \o SubSeq(sorted, k + 1, Len(sorted))

RECURSIVE SortByScore(_)
\* scored_articles.sort(reverse=True, key=lambda x: x[0])
SortByScore(list) ==
    IF list = <<>>
    THEN <<>>
    ELSE InsertByScore(SortByScore(SubSeq(list, 1, Len(list) - 1)), list[Len(list)])

\* scored_articles after the sort; "article" is the position in the input
ScoredArticles(arts, geo) ==
    LET valid == ValidArticles(arts)
    IN  SortByScore([n \in 1..Len(valid) |->
                        [score |-> SeoScore(arts[valid[n]], geo),
                         article |-> valid[n]]])

\* the value returned, given scored_articles: <<>> for None, else <<i>> for
\* the article arts[i]
BestArticle(arts, scored) ==
    IF arts = <<>> THEN <<>>
    ELSE IF ValidArticles(arts) = <<>> THEN <<1>>
    ELSE IF scored # <<>> THEN <<scored[1].article>>
    ELSE <<ValidArticles(arts)[1]>>

\* the whole function: the value returned and the scored list it built
GenerateSeoOptimizedNewsContent ==
    /\ seo_pc = "call"
    /\ scored_articles' = IF ValidArticles(articles) = <<>>
                          THEN <<>>
                          ELSE ScoredArticles(articles, geo_target)
    /\ best' = BestArticle(articles, scored_articles')
    /\ seo_pc' = "done"
    /\ UNCHANGED <<articles, geo_target>>
    /\ UNCHANGED memvars

\* the candidate lists of at most n articles
RECURSIVE ArticleLists(_)
ArticleLists(n) ==
    IF n = 0
    THEN {<<>>}
    ELSE ArticleLists(n - 1)
         \cup {Append(l, a) : l \in {k \in ArticleLists(n - 1) : Len(k) = n - 1},
                              a \in ArticlePool}

\* n times the character c
Filler(c, n) ==
    [i \in 1..n |-> c]

\* a title of n characters
TitleOfLength(n) ==
    A_Local_news \o Filler("s", n - Len(A_Local_news))

\* titles at the ends of the range of the title-length bonus, and a title of 29
\* characters that starts with the capital I with dot above
LengthTitles ==
    {TitleOfLength(29), TitleOfLength(30), TitleOfLength(60), TitleOfLength(61),
     <<DottedCapitalI>> \o Filler("s", 28)}

\* texts at the ends of the bands of the content-length bonus
LengthTexts ==
    {Filler("w", 400), Filler("w", 401), Filler("w", 800), Filler("w", 801),
     Filler("w", 1500), Filler("w", 1501)}

LengthDescriptions ==
    {A_Nothing_new, Filler("d", 801)}

\* the article with this title and description and, unless absent, content
LengthArticle(title, description, content) ==
    IF content = <<"absent">>
    THEN [title |-> title, description |-> description]
    ELSE [title |-> title, description |-> description, content |-> content]

\* the articles that one title and one description give: without content, with
\* empty content, and with content of every length
LengthVariants(title, description) ==
    {LengthArticle(title, description, c) :
        c \in LengthTexts \cup {<<>>, <<"absent">>}}

\* candidate lists of one article, or of two articles that differ in their
\* content alone
LengthLists ==
    UNION {{<<a>> : a \in LengthVariants(t, d)}
             \cup {<<a, b>> : a, b \in LengthVariants(t, d)} :
           t \in LengthTitles, d \in LengthDescriptions}

(***************************************************************************)
(* The command-line scripts: daily_news_automation, crypto_news_automation *)
(* and airth_first_post.                                                   *)
(***************************************************************************)
VARIABLES
    cli,        \* the invocation: the script, its flags and its environment
    cli_pc,     \* "off", "main", "fetch", "select", "publish", "blog", "remember",
                \* "returned", "exited"
    wf,         \* the local variables of the workflow function
    calls,      \* history: the calls made to the publishing operations
    wf_result,  \* <<>>, or <<r>> once the workflow has returned r
    exit_code   \* <<>>, or <<n>> once the process has ended with code n

clivars ==
    <<cli, cli_pc, wf, calls, wf_result, exit_code>>

\* the number of attempts of a fetch and of a publish
MAX_RETRIES ==
    3

\* the table without its last entry
PRIORITIZED_CATEGORIES_WithoutSports ==
    <<"tech", "science", "digital_rights", "crypto", "sustainability",
      "business", "culture", "policy", "gaming">>

\* the names of PRIORITIZED_CATEGORIES, in order
PRIORITIZED_CATEGORIES ==
    <<"tech", "science", "digital_rights", "crypto", "sustainability",
      "business", "culture", "policy", "gaming", "sports">>

\* the category names as Python strings
NameChars ==
    [tech |-> <<"t", "e", "c", "h">>,
     science |-> <<"s", "c", "i", "e", "n", "c", "e">>,
     digital_rights |-> <<"d", "i", "g", "i", "t", "a", "l", "_", "r", "i",
                          "g", "h", "t", "s">>,
     crypto |-> <<"c", "r", "y", "p", "t", "o">>,
     sustainability |-> <<"s", "u", "s", "t", "a", "i", "n", "a", "b", "i",
                          "l", "i", "t", "y">>,
     business |-> <<"b", "u", "s", "i", "n", "e", "s", "s">>,
     culture |-> <<"c", "u", "l", "t", "u", "r", "e">>,
     policy |-> <<"p", "o", "l", "i", "c", "y">>,
     gaming |-> <<"g", "a", "m", "i", "n", "g">>,
     sports |-> <<"s", "p", "o", "r", "t", "s">>,
     Tech |-> <<"T", "e", "c", "h">>,
     zz |-> <<"z", "z">>]

\* get_category_keywords (lines 302-319): the index of the first entry whose
\* lower-cased name is the lower-cased category_name, and whether the function
\* fell back to the keywords of the first entry; without a name (written "")
\* the keywords of all entries, written as entry 0
GetCategoryKeywords(category_name) ==
    IF category_name = "" THEN [entry |-> 0, fallback |-> FALSE] ELSE
    LET hits == {i \in 1..Len(PRIORITIZED_CATEGORIES) :
                    Lower(NameChars[PRIORITIZED_CATEGORIES[i]])
                        = Lower(NameChars[category_name])}
    IN  IF hits # {}
        THEN [entry |-> CHOOSE i \in hits : \A j \in hits : i <= j,
              fallback |-> FALSE]
        ELSE [entry |-> 1, fallback |-> TRUE]

\* result dicts: of a post that was created, of one that failed, and the one
\* create_post returns when the API URL is not configured
SuccessResult ==
    [success |-> TRUE, post_url |-> "url"]

FailureResult ==
    [success |-> FALSE, error |-> "error"]

ErrorOnlyResult ==
    [error |-> "WordPress API URL not configured"]

\* result.get("success") is truthy
Succeeded(r) ==
    "success" \in DOMAIN r /\ r["success"]

\* what one call of airth.fetch_news can do: raise, or return a list
FetchOutcomes ==
    {[raised |-> FALSE, articles |-> l] :
        l \in {<<>>, <<ArtPlain>>, <<ArtGeo, ArtTrend>>, <<ArtNoDescription>>}}
      \cup {[raised |-> TRUE, articles |-> <<>>]}

\* what one call of airth.create_news_commentary_post can do: raise, or return
\* a result with a success flag
CommentaryOutcomes ==
    {[raised |-> FALSE, result |-> r] : r \in {SuccessResult, FailureResult}}
      \cup {[raised |-> TRUE, result |-> EmptyDict]}

\* what one call of create_airth_post can do: raise, or return what create_post
\* returns
PostOutcomes ==
    {[raised |-> FALSE, result |-> r] :
        r \in {SuccessResult, FailureResult, ErrorOnlyResult}}
      \cup {[raised |-> TRUE, result |-> EmptyDict]}

\* the invocations of the three scripts
Invocations ==
    {[script |-> "daily", geo |-> g, category |-> c, config_ok |-> k] :
        g \in {<<>>, G_us}, c \in {"", "tech", "Tech", "zz"}, k \in BOOLEAN}
      \cup {[script |-> "crypto"]}
      \cup {[script |-> "first_post", publish |-> p, openai_key |-> o, wp_creds |-> w] :
              p \in BOOLEAN, o \in BOOLEAN, w \in BOOLEAN}

NoLocals ==
    [category_index |-> 0, attempts |-> 0, articles |-> <<>>, article |-> <<>>,
     post_success |-> FALSE, post_status |-> "",
     post_result |-> <<>>, result |-> <<>>]

\* run_daily_news_automation, lines 340-343: the agent is constructed; an
\* unreadable config file makes the constructor raise, which line 432 catches
Daily_Construct ==
    /\ cli_pc = "main"
    /\ cli.script = "daily"
    /\ IF cli.config_ok
       THEN /\ cli_pc' = "fetch"
            /\ wf_result' = wf_result
       ELSE /\ cli_pc' = "returned"
            /\ wf_result' = <<FailureResult>>
    /\ wf' = NoLocals
    /\ UNCHANGED <<cli, calls, exit_code>>

\* the index of the next fallback category after index i, 0 when there is none
NextFallback(i, category) ==
    IF \E j \in (i + 1)..Len(PRIORITIZED_CATEGORIES) :
           PRIORITIZED_CATEGORIES[j] # category
    THEN CHOOSE j \in (i + 1)..Len(PRIORITIZED_CATEGORIES) :
             /\ PRIORITIZED_CATEGORIES[j] # category
             /\ \A k \in (i + 1)..(j - 1) : PRIORITIZED_CATEGORIES[k] = category
    ELSE 0

\* one turn of the loop of fetch_articles_with_retry (lines 267-286), called
\* for the chosen keywords (line 357) and then for each fallback category in
\* turn (lines 366-385); lines 387-392 when every category came back empty
Daily_FetchNews(outcome) ==
    /\ cli_pc = "fetch"
    /\ IF ~outcome.raised /\ outcome.articles # <<>>
       THEN /\ wf' = [wf EXCEPT !.articles = outcome.articles, !.attempts = 0]
            /\ cli_pc' = "select"
            /\ wf_result' = wf_result
       ELSE IF wf.attempts + 1 < MAX_RETRIES
       THEN /\ wf' = [wf EXCEPT !.attempts = @ + 1]
            /\ cli_pc' = "fetch"
            /\ wf_result' = wf_result
       ELSE IF NextFallback(wf.category_index, cli.category) # 0
       THEN /\ wf' = [wf EXCEPT !.attempts = 0,
                                !.category_index =
                                    NextFallback(wf.category_index, cli.category)]
            /\ cli_pc' = "fetch"
            /\ wf_result' = wf_result
       ELSE /\ wf' = [wf EXCEPT !.attempts = 0]
            /\ cli_pc' = "returned"
            /\ wf_result' = <<FailureResult>>
    /\ UNCHANGED <<cli, calls, exit_code>>

\* line 395: the article is selected
Daily_Select ==
    /\ cli_pc = "select"
    /\ wf' = [wf EXCEPT !.article =
                 BestArticle(wf.articles, ScoredArticles(wf.articles, cli.geo))]
    /\ cli_pc' = "publish"
    /\ UNCHANGED <<cli, calls, wf_result, exit_code>>

\* the condition of the publishing loop when a success does not end it
PublishLoopContinues_IgnoresSuccess(post_success, attempts) ==
    attempts < MAX_RETRIES

\* line 404: while not post_success and attempts < MAX_RETRIES
PublishLoopContinues(post_success, attempts) ==
    ~post_success /\ attempts < MAX_RETRIES

\* one turn of the publishing loop (lines 404-421) and, when the loop ends,
\* the result returned (lines 423-435)
Daily_Publish(outcome) ==
    /\ cli_pc = "publish"
    /\ PublishLoopContinues(wf.post_success, wf.attempts)
    /\ calls' = Append(calls, [op |-> "create_news_commentary_post"])
    /\ LET ok == ~outcome.raised /\ Succeeded(outcome.result)
           n  == IF ok THEN wf.attempts ELSE wf.attempts + 1
       IN  /\ wf' = [wf EXCEPT !.post_success = ok, !.attempts = n]
           /\ IF PublishLoopContinues(ok, n)
              THEN /\ cli_pc' = "publish"
                   /\ wf_result' = wf_result
              ELSE /\ cli_pc' = "returned"
                   /\ wf_result' = IF ok THEN <<SuccessResult>>
                                         ELSE <<FailureResult>>
    /\ UNCHANGED <<cli, exit_code>>

\* run_crypto_news_automation (lines 204-357): an exception on the way to the
\* post, or the post, always as a draft (line 335), and the result
Crypto_Run(early, outcome) ==
    /\ cli_pc = "main"
    /\ cli.script = "crypto"
    /\ IF early
       THEN /\ calls' = calls
            /\ wf_result' = <<FailureResult>>
       ELSE /\ calls' = Append(calls, [op |-> "create_airth_post",
                                       status |-> "draft"])
            /\ wf_result' = IF ~outcome.raised /\ Succeeded(outcome.result)
                            THEN <<SuccessResult>>
                            ELSE <<FailureResult>>
    /\ cli_pc' = "returned"
    /\ wf' = NoLocals
    /\ UNCHANGED <<cli, exit_code>>

\* airth_first_post.main, lines 37-64: the environment is checked, the agent
\* constructed and post_status computed
FirstPost_Main ==
    /\ cli_pc = "main"
    /\ cli.script = "first_post"
    /\ IF cli.openai_key /\ cli.wp_creds
       THEN /\ cli_pc' = "blog"
            /\ wf' = [NoLocals EXCEPT !.post_status =
                         IF cli.publish THEN "publish" ELSE "draft"]
            /\ wf_result' = wf_result
       ELSE /\ cli_pc' = "returned"
            /\ wf' = NoLocals
            /\ wf_result' = <<[success |-> FALSE]>>
    /\ UNCHANGED <<cli, calls, exit_code>>

\* the memory create_blog_post records of a post it created (lines 414-424)
BlogMemory ==
    [type |-> <<"p", "e", "r", "s", "o", "n", "a", "l">>, title |-> <<"B", "l", "o", "g", " ", "P", "o", "s", "t", ":", " ", "T">>,
     content |-> <<"I", " ", "w", "r", "o", "t", "e", " ", "a", " ", "b", "l", "o", "g", " ", "p", "o", "s", "t", ".">>,
     emotional_signature |-> <<"c", "r", "e", "a", "t", "i", "v", "e">>,
     associated_entities |-> << <<"B", "l", "o", "g">>, <<"W", "r", "i", "t", "i", "n", "g">> >>,
     meta |-> [priority_level |-> 6, recall_frequency |-> "medium",
               sensory_tags |-> << <<"w", "r", "i", "t", "i", "n", "g">> >>]]

\* the memory is recorded whatever the post returned
AddsBlogMemory_Always(post_result) ==
    TRUE

\* line 412 of create_blog_post: if post_result.get("success")
AddsBlogMemory(post_result) ==
    Succeeded(post_result)

\* AirthAgent.create_blog_post as main calls it (lines 66-70), up to the
\* memory: an exception before the post, or the post through
\* create_airth_post with status "draft" (line 406); then the memory follows
\* (line 412), or the function returns post_result (line 426) or the result of
\* its except clause (lines 428-434) and main its value, here [success |-> b]
\* (lines 73-81)
FirstPost_CreateBlogPost(early, outcome) ==
    /\ cli_pc = "blog"
    /\ cli.script = "first_post"
    /\ calls' = IF early THEN calls
                ELSE Append(calls, [op |-> "create_airth_post",
                                    status |-> "draft"])
    /\ IF early \/ outcome.raised
       THEN /\ wf' = [wf EXCEPT !.result = <<FailureResult>>]
            /\ wf_result' = <<[success |-> Succeeded(FailureResult)]>>
            /\ cli_pc' = "returned"
       ELSE IF AddsBlogMemory(outcome.result)
       THEN /\ wf' = [wf EXCEPT !.post_result = <<outcome.result>>]
            /\ wf_result' = wf_result
            /\ cli_pc' = "remember"
       ELSE /\ wf' = [wf EXCEPT !.post_result = <<outcome.result>>,
                                !.result = <<outcome.result>>]
            /\ wf_result' = <<[success |-> Succeeded(outcome.result)]>>
            /\ cli_pc' = "returned"
    /\ UNCHANGED <<cli, exit_code, memories, clock, disk>>

\* lines 414-426 of create_blog_post: add_new_memory records the post, its
\* return value is not looked at, and post_result is returned; then lines
\* 73-81 of main
FirstPost_AddMemory(write_ok) ==
    /\ cli_pc = "remember"
    /\ cli.script = "first_post"
    /\ LET all_memories == Get(memories, "memories", <<>>)
       IN  /\ memories' =
                 [memories EXCEPT
                     !.memories = Append(all_memories,
                         WithDefaults(all_memories, BlogMemory, clock)),
                     !.last_updated = LastUpdatedAt(BlogMemory, clock)]
           /\ clock' = LastUpdatedAt(BlogMemory, clock) + 1
           /\ disk' = IF write_ok THEN FileOf(memories') ELSE EmptyFile
    /\ wf' = [wf EXCEPT !.result = wf.post_result]
    /\ wf_result' = <<[success |-> Succeeded(wf.post_result[1])]>>
    /\ cli_pc' = "returned"
    /\ UNCHANGED <<cli, calls, exit_code>>

\* the end of the script: airth_first_post calls sys.exit(1) when main returned
\* False (lines 85-91); the other two scripts print the result and end (lines
\* 455-461 of daily_news_automation, 371-377 of crypto_news_automation)
ExitCode(script, workflow_result) ==
    IF script = "first_post" /\ ~Succeeded(workflow_result) THEN 1 ELSE 0

Main_Exit ==
    /\ cli_pc = "returned"
    /\ exit_code' = <<ExitCode(cli.script, wf_result[1])>>
    /\ cli_pc' = "exited"
    /\ UNCHANGED <<cli, wf, calls, wf_result>>

(***************************************************************************)
(* WordPressAgent: construction, create_post and the authentication probe  *)
(* _try_multiple_auth_methods.                                             *)
(***************************************************************************)
VARIABLES
    wp,           \* the environment and the fields of the agent
    wp_pc,        \* "off", "new", "ready", "probe", "returned", "raised"
    wp_op,        \* the operation called: "", "create_post" or "probe"
    wp_attempts,  \* the requests the probe has made, in order
    wp_ret,       \* the value returned: <<>> for nothing or None, else <<v>>
    wp_raised     \* an exception has reached the caller

wpvars ==
    <<wp, wp_pc, wp_op, wp_attempts, wp_ret, wp_raised>>

\* the environments: whether the site URL, the user and the application
\* password are set, and the config file: none given, readable, unreadable
WpEnvironments ==
    [config : {"none", "ok", "unreadable"}, site_url : BOOLEAN,
     user : BOOLEAN, app_pass : BOOLEAN, api_base_url : {FALSE}]

\* what one HTTP request can do: raise, or come back with a status code
Responses ==
    {[raised |-> FALSE, status |-> c] : c \in {200, 201, 401, 500}}
      \cup {[raised |-> TRUE, status |-> 0]}

\* the authentication variants, in the order of auth_methods (lines 91-107)
AuthMethods ==
    <<"Bearer token", "Basic auth with spaces", "Basic auth without spaces">>

\* WordPressAgent.__init__ (lines 20-54) with BaseAgent.__init__ and
\* _load_config: an unreadable config file is logged and raised again
Wp_Construct ==
    /\ wp_pc = "new"
    /\ IF wp.config = "unreadable"
       THEN /\ wp_pc' = "raised"
            /\ wp_raised' = TRUE
            /\ wp' = wp
       ELSE /\ wp_pc' = "ready"
            /\ wp_raised' = FALSE
            /\ wp' = [wp EXCEPT !.api_base_url = wp.site_url]
    /\ UNCHANGED <<wp_op, wp_attempts, wp_ret>>

\* what create_post returns when the API URL is not configured (line 262)
UnconfiguredResult ==
    ErrorOnlyResult

\* create_post (lines 260-324)
Wp_CreatePost(response) ==
    /\ wp_pc = "ready"
    /\ wp_op' = "create_post"
    /\ wp_ret' = IF ~wp.api_base_url THEN <<UnconfiguredResult>>
                 ELSE IF response.raised THEN <<FailureResult>>
                 ELSE IF response.status # 201 THEN <<FailureResult>>
                 ELSE <<SuccessResult>>
    /\ wp_pc' = "returned"
    /\ UNCHANGED <<wp, wp_attempts, wp_raised>>

\* _try_multiple_auth_methods, lines 91-109: the list of variants is built;
\* self.wp_user.lower() and self.wp_app_pass.replace raise AttributeError
\* when the user or the password is not set
Wp_AuthBegin ==
    /\ wp_pc = "ready"
    /\ wp_op' = "probe"
    /\ IF wp.user /\ wp.app_pass
       THEN /\ wp_pc' = "probe"
            /\ wp_raised' = wp_raised
       ELSE /\ wp_pc' = "raised"
            /\ wp_raised' = TRUE
    /\ UNCHANGED <<wp, wp_attempts, wp_ret>>

\* last_response after the attempts made
LastResponse(attempts) ==
    LET got == {i \in 1..Len(attempts) : ~attempts[i].raised}
    IN  IF got = {} THEN <<>>
        ELSE <<attempts[CHOOSE i \in got : \A j \in got : j <= i]>>

\* line 134: response.status_code in [200, 201]
IsSuccessStatus(status) ==
    status \in {200, 201}

\* one turn of the loop over the variants (lines 110-139), and the return of
\* last_response after the last one (line 142)
Wp_AuthAttempt(response) ==
    /\ wp_pc = "probe"
    /\ Len(wp_attempts) < Len(AuthMethods)
    /\ LET attempt == [method |-> AuthMethods[Len(wp_attempts) + 1],
                       raised |-> response.raised, status |-> response.status]
           attempts == Append(wp_attempts, attempt)
       IN  /\ wp_attempts' = attempts
           /\ IF ~response.raised /\ IsSuccessStatus(response.status)
              THEN /\ wp_ret' = <<attempt>>
                   /\ wp_pc' = "returned"
              ELSE IF Len(attempts) = Len(AuthMethods)
              THEN /\ wp_ret' = LastResponse(attempts)
                   /\ wp_pc' = "returned"
              ELSE /\ wp_ret' = wp_ret
                   /\ wp_pc' = "probe"
    /\ UNCHANGED <<wp, wp_op, wp_raised>>

(***************************************************************************)
(* A second process on the same memories.json: another AirthAgent, built   *)
(* and used by another script run at the same time.                        *)
(***************************************************************************)
VARIABLES
    other_pc,        \* "off" before the other agent is constructed, then "idle"
    other_memories,  \* self.memories of the other agent
    loaded,          \* the file as this agent's _load_memories read it
    other_loaded,    \* the file as the other agent's _load_memories read it
    writes           \* the completed writes of the file, in order

twovars ==
    <<other_pc, other_memories, loaded, other_loaded, writes>>

\* the inserts one process makes in a run of two processes
MaxInserts == 1

\* the number of completed writes of one process
WritesOf(process) ==
    Cardinality({i \in 1..Len(writes) : writes[i].process = process})

\* the other agent is constructed: _load_memories reads the file as it is
Other_Load ==
    /\ other_pc = "off"
    /\ other_memories' = LoadMemories(disk, clock)
    /\ other_loaded' = <<disk>>
    /\ clock' = IF Parseable(disk) THEN clock ELSE clock + 1
    /\ other_pc' = "idle"
    /\ UNCHANGED <<memories, disk, pc, memory_data, argument, added, failed_at,
                   old_memories, old_disk, retvars, loaded, writes>>

\* a completed write of the file by one of the processes
WriteOf(process, d, memory_data_) ==
    [process |-> process, memory_data |-> memory_data_,
     auto_id |-> "id" \notin DOMAIN d,
     returned |-> "title" \in DOMAIN memory_data_]

\* add_new_memory in the other process if it read the file again before it
\* inserts, instead of using the store it loaded at construction
Other_Add_Reloading(d) ==
    /\ other_pc = "idle"
    /\ pc # "dump"
    /\ WritesOf("other") < MaxInserts
    /\ LET all_memories == LoadMemories(disk, clock).memories
           d3 == WithDefaults(all_memories, d, clock)
           t  == LastUpdatedAt(d, clock)
       IN  /\ other_memories' =
                  [other_memories EXCEPT !.memories = Append(all_memories, d3),
                                         !.last_updated = t]
           /\ clock' = t + 1
           /\ writes' = Append(writes, WriteOf("other", d, d3))
    /\ disk' = FileOf(other_memories')
    /\ UNCHANGED <<memories, pc, memory_data, argument, added, failed_at,
                   old_memories, old_disk, retvars, other_pc, loaded,
                   other_loaded>>

\* add_new_memory in the other process (lines 264-308), while this process
\* has not got the file open: the id and the defaults from its own store,
\* the append, and the whole of its store written over the file
Other_Add(d) ==
    /\ other_pc = "idle"
    /\ pc # "dump"
    /\ WritesOf("other") < MaxInserts
    /\ LET all_memories == Get(other_memories, "memories", <<>>)
           d3 == WithDefaults(all_memories, d, clock)
           t  == LastUpdatedAt(d, clock)
       IN  /\ other_memories' =
                  [other_memories EXCEPT !.memories = Append(all_memories, d3),
                                         !.last_updated = t]
           /\ clock' = t + 1
           /\ writes' = Append(writes, WriteOf("other", d, d3))
    /\ disk' = FileOf(other_memories')
    /\ UNCHANGED <<memories, pc, memory_data, argument, added, failed_at,
                   old_memories, old_disk, retvars, other_pc, loaded,
                   other_loaded>>

\* json.dump of this process (line 301), and the record of the write when
\* the last chunk is out
Add_DumpChunk_Recorded ==
    /\ Add_DumpChunk
    /\ writes' = IF disk'.end
                 THEN Append(writes, WriteOf("this", argument[1], memory_data[1]))
                 ELSE writes
    /\ UNCHANGED <<other_pc, other_memories, loaded, other_loaded>>

(***************************************************************************)
(* process_memory_from_text: the text generated for the prompt is parsed   *)
(* as JSON; texts are sequences of JSON tokens.                            *)
(***************************************************************************)
VARIABLES
    pm_text,       \* the argument text
    pm_hint,       \* the argument type_hint: <<>> for None, else <<string>>
    pm_generated,  \* what call_openai_api returned, as tokens
    pm_pc,         \* "off", "call" or "returned"
    pm_ret         \* the outcome: raised or not, and the value returned

pmvars ==
    <<pm_text, pm_hint, pm_generated, pm_pc, pm_ret>>

S_personal ==
    <<"p", "e", "r", "s", "o", "n", "a", "l">>

S_event ==
    <<"e", "v", "e", "n", "t">>

S_Unprocessed_Memory ==
    <<"U", "n", "p", "r", "o", "c", "e", "s", "s", "e", "d", " ", "M", "e",
      "m", "o", "r", "y">>

S_unknown ==
    <<"u", "n", "k", "n", "o", "w", "n">>

S_Dream ==
    <<"D", "r", "e", "a", "m">>

\* the string tokens of the texts, with the strings they stand for
StringTokens ==
    [t \in {"\"title\"", "\"content\"", "\"Dream\"", "\"event\""} |->
        CASE t = "\"title\"" -> "title"
          [] t = "\"content\"" -> "content"
          [] t = "\"Dream\"" -> "Dream"
          [] t = "\"event\"" -> "event"]

\* the tokens that are a JSON value on their own
IsScalar(tok) ==
    tok \in DOMAIN StringTokens \cup {"42", "null", "true", "false"}

\* "key": value pairs separated by commas, between the braces of an object
IsMembers(toks) ==
    \/ toks = <<>>
    \/ /\ Len(toks) % 4 = 3
       /\ \A i \in 1..Len(toks) :
              CASE i % 4 = 1 -> toks[i] \in DOMAIN StringTokens
                [] i % 4 = 2 -> toks[i] = ":"
                [] i % 4 = 3 -> IsScalar(toks[i])
                [] OTHER -> toks[i] = ","

\* the Python type of the value json.loads gives, or "JSONDecodeError"
JsonLoadsKind(toks) ==
    IF Len(toks) = 1 /\ IsScalar(toks[1])
    THEN CASE toks[1] \in DOMAIN StringTokens -> "str"
           [] toks[1] = "42" -> "int"
           [] toks[1] = "null" -> "NoneType"
           [] OTHER -> "bool"
    ELSE IF toks = <<"[", "]">>
    THEN "list"
    ELSE IF Len(toks) >= 2 /\ toks[1] = "{" /\ toks[Len(toks)] = "}"
              /\ IsMembers(SubSeq(toks, 2, Len(toks) - 1))
    THEN "dict"
    ELSE "JSONDecodeError"

\* the keys of the object json.loads gives for an object text
JsonLoadsKeys(toks) ==
    {StringTokens[toks[i]] : i \in {j \in 2..(Len(toks) - 1) : j % 4 = 2}}

\* what call_openai_api can return (lines 150-196): an object as asked for,
\* an empty object, other JSON values, prose, an object cut short, and the
\* "Error: ..." string of a failed call
GeneratedTexts ==
    { <<"{", "\"title\"", ":", "\"Dream\"", ",", "\"content\"", ":", "\"event\"", "}">>,
      <<"{", "}">>,
      <<"42">>,
      <<"null">>,
      <<"\"Dream\"">>,
      <<"[", "]">>,
      <<"Here", "is", "the", "memory", ":">>,
      <<"{", "\"title\"", ":", "\"Dream\"", ",">>,
      <<"Error:", "OpenAI", "API", "key", "not", "configured">>,
      <<>> }

\* the texts passed in: empty, and around the 100 characters of the cut
MemoryTexts ==
    {Filler("m", n) : n \in {0, 99, 100, 101, 130}}

TypeHints ==
    {<<>>, << <<>> >>, <<S_event>>}

\* text[:100] + "..." if len(text) > 100 else text
FallbackContent(text) ==
    IF Len(text) > 100 THEN SubSeq(text, 1, 100) \o <<".", ".", ".">> ELSE text

\* the record of lines 482-494
FallbackMemory(text, type_hint) ==
    [type |-> IF type_hint # <<>> /\ type_hint[1] # <<>>
              THEN type_hint[1] ELSE S_personal,
     title |-> S_Unprocessed_Memory,
     content |-> FallbackContent(text),
     emotional_signature |-> S_unknown,
     associated_entities |-> <<>>,
     meta |-> [priority_level |-> 5, recall_frequency |-> "low",
               sensory_tags |-> <<>>]]

\* process_memory_from_text (lines 436-494): the value json.loads gives is
\* returned as it is; only a JSONDecodeError leads to the fallback record
ProcessMemoryFromText ==
    /\ pm_pc = "call"
    /\ pm_ret' =
         LET kind == JsonLoadsKind(pm_generated)
         IN  IF kind = "JSONDecodeError"
             THEN [raised |-> FALSE, type |-> "dict", fallback |-> TRUE,
                   keys |-> DOMAIN FallbackMemory(pm_text, pm_hint),
                   memory |-> <<FallbackMemory(pm_text, pm_hint)>>]
             ELSE [raised |-> FALSE, type |-> kind, fallback |-> FALSE,
                   keys |-> IF kind = "dict" THEN JsonLoadsKeys(pm_generated)
                            ELSE {},
                   memory |-> <<>>]
    /\ pm_pc' = "returned"
    /\ UNCHANGED <<pm_text, pm_hint, pm_generated>>

(***************************************************************************)
(* fetch_articles_with_retry, called on its own.                           *)
(***************************************************************************)
VARIABLES
    fr_args,      \* the arguments country and max_results
    fr_pc,        \* "off", "loop" or "returned"
    fr_attempts,  \* the local attempts
    fr_calls,     \* what the calls of airth.fetch_news made so far did
    fr_ret        \* the outcome: raised or not, and the list returned

frvars ==
    <<fr_args, fr_pc, fr_attempts, fr_calls, fr_ret>>

\* the arguments the workflow passes: the geo target or None, and 15 results
\* for the first fetch, 10 for a fallback category (lines 357-363, 375-381)
FetchArguments ==
    {[country |-> c, max_results |-> m] : c \in {<<>>, G_us}, m \in {10, 15}}

\* one turn of the loop when a call that raises is not counted
FetchTurn_RaiseNotCounted(attempts, outcome) ==
    IF ~outcome.raised /\ outcome.articles # <<>>
    THEN [returned |-> TRUE, articles |-> outcome.articles, attempts |-> attempts]
    ELSE IF outcome.raised
    THEN [returned |-> FALSE, articles |-> <<>>, attempts |-> attempts]
    ELSE [returned |-> attempts + 1 >= MAX_RETRIES, articles |-> <<>>,
          attempts |-> attempts + 1]

\* one turn of the loop (lines 267-286) and, when the loop ends, line 290:
\* whether the function returns, what it returns, and attempts afterwards
FetchTurn(attempts, outcome) ==
    IF ~outcome.raised /\ outcome.articles # <<>>
    THEN [returned |-> TRUE, articles |-> outcome.articles, attempts |-> attempts]
    ELSE [returned |-> attempts + 1 >= MAX_RETRIES, articles |-> <<>>,
          attempts |-> attempts + 1]

\* fetch_articles_with_retry, one call of airth.fetch_news at a time
FetchArticlesWithRetry(outcome) ==
    /\ fr_pc = "loop"
    /\ fr_attempts < MAX_RETRIES
    /\ fr_calls' = Append(fr_calls, outcome @@ fr_args)
    /\ fr_args' = fr_args
    /\ LET turn == FetchTurn(fr_attempts, outcome)
       IN  /\ fr_attempts' = turn.attempts
           /\ fr_pc' = IF turn.returned THEN "returned" ELSE "loop"
           /\ fr_ret' = IF turn.returned
                        THEN <<[raised |-> FALSE, articles |-> turn.articles]>>
                        ELSE fr_ret

(***************************************************************************)
(* tec_scheduler: schedule_daily_news, run_task and the category rotation. *)
(***************************************************************************)
VARIABLES
    sch_pc,        \* "off", "start", "first", "second" or "returned"
    sch_region,    \* selected_region
    sch_category,  \* selected_category
    sch_runs,      \* the runs of the news task made, in order
    sch_ret        \* the value returned: <<>> before, else <<success>>

schvars ==
    <<sch_pc, sch_region, sch_category, sch_runs, sch_ret>>

NEWS_CATEGORIES ==
    <<"tech", "science", "digital_rights", "crypto", "sustainability",
      "business", "culture", "policy">>

OCCASIONAL_CATEGORIES ==
    <<"gaming", "sports">>

\* geo_regions of schedule_daily_news
GeoRegions ==
    <<"US", "UK", "CA", "AU", "IN", "DE", "FR">>

Elements(list) ==
    {list[i] : i \in 1..Len(list)}

\* the values get_daily_news_category can return on a day of the week: on
\* weekdays and at weekends alike a draw decides between the main and the
\* occasional list, and every entry of either list has a positive weight
DailyNewsCategories(day_of_week) ==
    Elements(NEWS_CATEGORIES) \cup Elements(OCCASIONAL_CATEGORIES)

\* what one run of the news task can be: the workflow returned a success or a
\* failure result, or the process ended on an uncaught error (an import that
\* fails, arguments that do not parse) or could not be started
TaskOutcomes ==
    {"success", "failure", "crash", "not started"}

\* run_task("news", "--geo", region, "--category", category), lines 57-113:
\* success is process.returncode == 0, False when Popen raised
RunTask(region, category, outcome) ==
    LET returncode == CASE outcome = "success" -> <<ExitCode("daily", SuccessResult)>>
                        [] outcome = "failure" -> <<ExitCode("daily", FailureResult)>>
                        [] outcome = "crash" -> <<1>>
                        [] OTHER -> <<>>
    IN  [region |-> region, category |-> category, workflow |-> outcome,
         returncode |-> returncode,
         keywords |-> GetCategoryKeywords(category),
         success |-> returncode = <<0>>]

\* lines 146-153: the region and the category are drawn
Sched_Select(region, day_of_week, category) ==
    /\ sch_pc = "start"
    /\ category \in DailyNewsCategories(day_of_week)
    /\ sch_region' = region
    /\ sch_category' = category
    /\ sch_pc' = "first"
    /\ UNCHANGED <<sch_runs, sch_ret>>

\* lines 158-165: the first run, and the value returned when it succeeded
Sched_FirstRun(outcome) ==
    /\ sch_pc = "first"
    /\ LET run == RunTask(sch_region, sch_category, outcome)
       IN  /\ sch_runs' = Append(sch_runs, run)
           /\ IF ~run.success
              THEN /\ sch_pc' = "second"
                   /\ sch_ret' = sch_ret
              ELSE /\ sch_pc' = "returned"
                   /\ sch_ret' = <<run.success>>
    /\ UNCHANGED <<sch_region, sch_category>>

\* line 163: the second run, with the category "tech"
Sched_SecondRun(outcome) ==
    /\ sch_pc = "second"
    /\ LET run == RunTask(sch_region, "tech", outcome)
       IN  /\ sch_runs' = Append(sch_runs, run)
           /\ sch_ret' = <<run.success>>
    /\ sch_pc' = "returned"
    /\ UNCHANGED <<sch_region, sch_category>>

(***************************************************************************)
(* The specifications.                                                     *)
(***************************************************************************)
vars ==
    <<memories, disk, clock, pc, memory_data, argument, added, failed_at,
      old_memories, old_disk, query, limit, relevant_memories, result,
      articles, geo_target, scored_articles, best, seo_pc,
      cli, cli_pc, wf, calls, wf_result, exit_code,
      wp, wp_pc, wp_op, wp_attempts, wp_ret, wp_raised,
      other_pc, other_memories, loaded, other_loaded, writes,
      pm_text, pm_hint, pm_generated, pm_pc, pm_ret,
      fr_args, fr_pc, fr_attempts, fr_calls, fr_ret,
      sch_pc, sch_region, sch_category, sch_runs, sch_ret>>

SeoIdle ==
    /\ articles = <<>>
    /\ geo_target = <<>>
    /\ scored_articles = <<>>
    /\ best = <<>>
    /\ seo_pc = "off"

CliIdle ==
    /\ cli = [script |-> "none"]
    /\ cli_pc = "off"
    /\ wf = NoLocals
    /\ calls = <<>>
    /\ wf_result = <<>>
    /\ exit_code = <<>>

WpIdle ==
    /\ wp = [config |-> "none", site_url |-> FALSE, user |-> FALSE,
             app_pass |-> FALSE, api_base_url |-> FALSE]
    /\ wp_pc = "off"
    /\ wp_op = ""
    /\ wp_attempts = <<>>
    /\ wp_ret = <<>>
    /\ wp_raised = FALSE

TwoIdle ==
    /\ other_pc = "off"
    /\ other_memories = EmptyDict
    /\ loaded = <<>>
    /\ other_loaded = <<>>
    /\ writes = <<>>

SchIdle ==
    /\ sch_pc = "off"
    /\ sch_region = ""
    /\ sch_category = ""
    /\ sch_runs = <<>>
    /\ sch_ret = <<>>

FrIdle ==
    /\ fr_args = [country |-> <<>>, max_results |-> 10]
    /\ fr_pc = "off"
    /\ fr_attempts = 0
    /\ fr_calls = <<>>
    /\ fr_ret = <<>>

PmIdle ==
    /\ pm_text = <<>>
    /\ pm_hint = <<>>
    /\ pm_generated = <<>>
    /\ pm_pc = "off"
    /\ pm_ret = <<>>

\* the variables of the functions modelled on their own
extvars ==
    <<pmvars, frvars, schvars>>

ExtIdle ==
    /\ PmIdle
    /\ FrIdle
    /\ SchIdle

\* the agent after construction: the store is loaded from the file
MemInit ==
    /\ disk \in InitialFiles
    /\ memories = LoadMemories(disk, 1)
    /\ clock = IF Parseable(disk) THEN 1 ELSE 2
    /\ pc = "idle"
    /\ memory_data = <<>>
    /\ argument = <<>>
    /\ added = <<>>
    /\ failed_at = ""
    /\ old_memories = memories.memories
    /\ old_disk = disk
    /\ query = <<>>
    /\ limit = 0
    /\ relevant_memories = <<>>
    /\ result = <<>>

Init ==
    /\ MemInit
    /\ SeoIdle
    /\ CliIdle
    /\ WpIdle
    /\ TwoIdle
    /\ ExtIdle

\* add_new_memory with a file system that may fail at any write
Next ==
    \/ \E d \in MemoryInputs : Add_Prepare(d) /\ UNCHANGED <<seovars, clivars, wpvars, twovars, extvars>>
    \/ Add_Open /\ UNCHANGED <<seovars, clivars, wpvars, twovars, extvars>>
    \/ Add_OpenFails /\ UNCHANGED <<seovars, clivars, wpvars, twovars, extvars>>
    \/ Add_DumpChunk /\ UNCHANGED <<seovars, clivars, wpvars, twovars, extvars>>
    \/ Add_DumpFails /\ UNCHANGED <<seovars, clivars, wpvars, twovars, extvars>>
    \/ Add_Log /\ UNCHANGED <<seovars, clivars, wpvars, twovars, extvars>>
    \/ Return /\ UNCHANGED <<seovars, clivars, wpvars, twovars, extvars>>

Spec ==
    Init /\ [][Next]_vars

\* retrieval over every store the inserts can build; the result of a
\* retrieval depends on the in-memory store alone, which a failing write
\* leaves as a succeeding one does, so the file system does not fail here
RetrieveNext ==
    \/ \E d \in MemoryInputs : Add_Prepare(d) /\ UNCHANGED <<seovars, clivars, wpvars, twovars, extvars>>
    \/ Add_Open /\ UNCHANGED <<seovars, clivars, wpvars, twovars, extvars>>
    \/ Add_DumpChunk /\ UNCHANGED <<seovars, clivars, wpvars, twovars, extvars>>
    \/ Add_Log /\ UNCHANGED <<seovars, clivars, wpvars, twovars, extvars>>
    \/ \E q \in Queries, lim \in 0..MaxLimit : Retrieve(q, lim) /\ UNCHANGED <<seovars, clivars, wpvars, twovars, extvars>>
    \/ Return /\ UNCHANGED <<seovars, clivars, wpvars, twovars, extvars>>

SpecRetrieve ==
    Init /\ [][RetrieveNext]_vars

\* the geo targets tried with the candidate lists of LengthLists
LengthGeoTargets ==
    {<<>>, G_us}

\* the selector applied to every candidate list and geo target
SeoInit ==
    /\ disk = EmptyFile
    /\ memories = LoadMemories(disk, 1)
    /\ clock = 2
    /\ pc = "idle"
    /\ memory_data = <<>>
    /\ argument = <<>>
    /\ added = <<>>
    /\ failed_at = ""
    /\ old_memories = <<>>
    /\ old_disk = disk
    /\ query = <<>>
    /\ limit = 0
    /\ relevant_memories = <<>>
    /\ result = <<>>
    /\ \/ /\ articles \in ArticleLists(MaxArticles)
          /\ geo_target \in GeoTargets
       \/ /\ articles \in LengthLists
          /\ geo_target \in LengthGeoTargets
    /\ scored_articles = <<>>
    /\ best = <<>>
    /\ seo_pc = "call"
    /\ CliIdle
    /\ WpIdle
    /\ TwoIdle
    /\ ExtIdle

SeoNext ==
    GenerateSeoOptimizedNewsContent /\ UNCHANGED <<clivars, wpvars, twovars, extvars>>

\* one run of one of the scripts, for every invocation and every store
CliInit ==
    /\ MemInit
    /\ SeoIdle
    /\ cli \in Invocations
    /\ cli_pc = "main"
    /\ wf = NoLocals
    /\ calls = <<>>
    /\ wf_result = <<>>
    /\ exit_code = <<>>
    /\ WpIdle
    /\ TwoIdle
    /\ ExtIdle

CliNext ==
    \/ Daily_Construct /\ UNCHANGED <<memvars, seovars, wpvars, twovars, extvars>>
    \/ \E o \in FetchOutcomes : Daily_FetchNews(o) /\ UNCHANGED <<memvars, seovars, wpvars, twovars, extvars>>
    \/ Daily_Select /\ UNCHANGED <<memvars, seovars, wpvars, twovars, extvars>>
    \/ \E o \in CommentaryOutcomes :
           Daily_Publish(o) /\ UNCHANGED <<memvars, seovars, wpvars, twovars, extvars>>
    \/ \E e \in BOOLEAN, o \in PostOutcomes :
           Crypto_Run(e, o) /\ UNCHANGED <<memvars, seovars, wpvars, twovars, extvars>>
    \/ FirstPost_Main /\ UNCHANGED <<memvars, seovars, wpvars, twovars, extvars>>
    \/ \E e \in BOOLEAN, o \in PostOutcomes :
           /\ FirstPost_CreateBlogPost(e, o)
           /\ UNCHANGED <<pc, memory_data, argument, added, failed_at,
                          old_memories, old_disk, retvars, seovars, wpvars, twovars, extvars>>
    \/ \E w \in BOOLEAN :
           /\ FirstPost_AddMemory(w)
           /\ UNCHANGED <<pc, memory_data, argument, added, failed_at,
                          old_memories, old_disk, retvars, seovars, wpvars, twovars, extvars>>
    \/ Main_Exit /\ UNCHANGED <<memvars, seovars, wpvars, twovars, extvars>>

SpecCli ==
    CliInit /\ [][CliNext]_vars

\* a WordPressAgent in every environment, and one operation called on it
WpInit ==
    /\ disk = EmptyFile
    /\ memories = LoadMemories(disk, 1)
    /\ clock = 2
    /\ pc = "idle"
    /\ memory_data = <<>>
    /\ argument = <<>>
    /\ added = <<>>
    /\ failed_at = ""
    /\ old_memories = <<>>
    /\ old_disk = disk
    /\ query = <<>>
    /\ limit = 0
    /\ relevant_memories = <<>>
    /\ result = <<>>
    /\ SeoIdle
    /\ CliIdle
    /\ wp \in WpEnvironments
    /\ wp_pc = "new"
    /\ wp_op = ""
    /\ wp_attempts = <<>>
    /\ wp_ret = <<>>
    /\ wp_raised = FALSE
    /\ TwoIdle
    /\ ExtIdle

WpNext ==
    \/ Wp_Construct /\ UNCHANGED <<memvars, seovars, clivars, twovars, extvars>>
    \/ \E r \in Responses : Wp_CreatePost(r) /\ UNCHANGED <<memvars, seovars, clivars, twovars, extvars>>
    \/ Wp_AuthBegin /\ UNCHANGED <<memvars, seovars, clivars, twovars, extvars>>
    \/ \E r \in Responses : Wp_AuthAttempt(r) /\ UNCHANGED <<memvars, seovars, clivars, twovars, extvars>>

SpecWp ==
    WpInit /\ [][WpNext]_vars

\* two processes on one file: this agent, constructed, and another one
\* constructed at any moment; the file system does not fail
TwoInit ==
    /\ MemInit
    /\ SeoIdle
    /\ CliIdle
    /\ WpIdle
    /\ other_pc = "off"
    /\ other_memories = EmptyDict
    /\ loaded = <<disk>>
    /\ other_loaded = <<>>
    /\ writes = <<>>
    /\ ExtIdle

TwoNext ==
    \/ \E d \in MemoryInputs :
           /\ WritesOf("this") < MaxInserts
           /\ Add_Prepare(d) /\ UNCHANGED <<seovars, clivars, wpvars, twovars, extvars>>
    \/ Add_Open /\ UNCHANGED <<seovars, clivars, wpvars, twovars, extvars>>
    \/ Add_DumpChunk_Recorded /\ UNCHANGED <<seovars, clivars, wpvars, extvars>>
    \/ Add_Log /\ UNCHANGED <<seovars, clivars, wpvars, twovars, extvars>>
    \/ Return /\ UNCHANGED <<seovars, clivars, wpvars, twovars, extvars>>
    \/ Other_Load /\ UNCHANGED <<seovars, clivars, wpvars, extvars>>
    \/ \E d \in MemoryInputs : Other_Add(d) /\ UNCHANGED <<seovars, clivars, wpvars, extvars>>

SpecTwo ==
    TwoInit /\ [][TwoNext]_vars

SpecSeo ==
    SeoInit /\ [][SeoNext]_vars

\* process_memory_from_text on every text, hint and generated text
PmInit ==
    /\ MemInit
    /\ disk = EmptyFile
    /\ SeoIdle
    /\ CliIdle
    /\ WpIdle
    /\ TwoIdle
    /\ pm_text \in MemoryTexts
    /\ pm_hint \in TypeHints
    /\ pm_generated \in GeneratedTexts
    /\ pm_pc = "call"
    /\ pm_ret = <<>>
    /\ FrIdle
    /\ SchIdle

PmNext ==
    ProcessMemoryFromText /\ UNCHANGED <<memvars, seovars, clivars, wpvars, twovars, frvars, schvars>>

SpecPm ==
    PmInit /\ [][PmNext]_vars

\* fetch_articles_with_retry with a news service that may fail at every call
FetchInit ==
    /\ MemInit
    /\ disk = EmptyFile
    /\ SeoIdle
    /\ CliIdle
    /\ WpIdle
    /\ TwoIdle
    /\ PmIdle
    /\ fr_args \in FetchArguments
    /\ fr_pc = "loop"
    /\ fr_attempts = 0
    /\ fr_calls = <<>>
    /\ fr_ret = <<>>
    /\ SchIdle

FetchNext ==
    \E o \in FetchOutcomes :
        FetchArticlesWithRetry(o)
          /\ UNCHANGED <<memvars, seovars, clivars, wpvars, twovars, pmvars, schvars>>

\* the loop is sequential code: as long as a turn is left, one is taken
SpecFetch ==
    FetchInit /\ [][FetchNext]_vars /\ WF_vars(FetchNext)

\* one call of schedule_daily_news
SchedInit ==
    /\ MemInit
    /\ disk = EmptyFile
    /\ SeoIdle
    /\ CliIdle
    /\ WpIdle
    /\ TwoIdle
    /\ PmIdle
    /\ FrIdle
    /\ sch_pc = "start"
    /\ sch_region = ""
    /\ sch_category = ""
    /\ sch_runs = <<>>
    /\ sch_ret = <<>>

SchedNext ==
    \/ \E region \in Elements(GeoRegions), day_of_week \in 0..6 :
         \E category \in DailyNewsCategories(day_of_week) :
           Sched_Select(region, day_of_week, category)
             /\ UNCHANGED <<memvars, seovars, clivars, wpvars, twovars, pmvars, frvars>>
    \/ \E o \in TaskOutcomes :
           Sched_FirstRun(o)
             /\ UNCHANGED <<memvars, seovars, clivars, wpvars, twovars, pmvars, frvars>>
    \/ \E o \in TaskOutcomes :
           Sched_SecondRun(o)
             /\ UNCHANGED <<memvars, seovars, clivars, wpvars, twovars, pmvars, frvars>>

SpecSched ==
    SchedInit /\ [][SchedNext]_vars

(***************************************************************************)
(* Properties of add_new_memory (specification Spec).                      *)
(***************************************************************************)
\* an add_new_memory call is under way or has just returned
InAdd ==
    memory_data # <<>>

\* add_new_memory has returned and the caller has not yet gone on
AddReturned ==
    pc = "returned" /\ added # <<>>

\* the ids of the records of the in-memory store
StoreIds ==
    ExistingIds(Get(memories, "memories", <<>>))

\* C1: after any sequence of add_new_memory calls, with or without a
\* caller-supplied id, from a store with pairwise distinct ids, the ids of all
\* records in the store are pairwise distinct.
C1_IdsPairwiseDistinct ==
    \A i, j \in 1..Len(StoreIds) : i # j => StoreIds[i] # StoreIds[j]

\* C2: when add_new_memory fails because the write of the document raises, it
\* returns False and the in-memory record list is the one before the call.
C2_FailedWriteLeavesStore ==
    (AddReturned /\ failed_at \in {"open", "dump"})
        => /\ added = <<FALSE>>
           /\ Get(memories, "memories", <<>>) = old_memories

\* C3: at every point during and after add_new_memory the file holds either
\* the complete document of before the call or the complete new document.
C3_AtomicReplace ==
    InAdd => \/ disk = old_disk
             \/ disk = FileOf(memories)

\* the number a well-formed id "memDDD" carries, -1 for any other string
IdNumber(id) ==
    LET Digit(c) == CHOOSE n \in 0..9 : DigitChars[n + 1] = c
        IsDigit(c) == \E n \in 0..9 : DigitChars[n + 1] = c
    IN  IF /\ Len(id) = 6
           /\ SubSeq(id, 1, 3) = S_mem
           /\ \A i \in 4..6 : IsDigit(id[i])
        THEN 100 * Digit(id[4]) + 10 * Digit(id[5]) + Digit(id[6])
        ELSE -1

\* C6: an insert of a record with no id assigns "mem" + a 3-digit zero-padded
\* number that is the id of no record already in the store, manually supplied
\* ids included; on a store holding exactly mem001..memN it assigns mem(N+1).
C6_AutoIdFreshAndSequential ==
    (InAdd /\ "id" \notin DOMAIN argument[1])
        => LET id  == memory_data[1]["id"]
               ids == ExistingIds(old_memories)
           IN  /\ IdNumber(id) > Len(ids)
               /\ \A i \in 1..Len(ids) : ids[i] # id
               /\ (\A i \in 1..Len(ids) : IdNumber(ids[i]) = i)
                      => IdNumber(id) = Len(ids) + 1
               /\ memories.memories[Len(memories.memories)]["id"] = id

\* an id-less insert whose first candidate id was taken by a manually supplied
\* id, so that the loop had to count past it
C6_Witness ==
    /\ AddReturned
    /\ "id" \notin DOMAIN argument[1]
    /\ Len(old_memories) >= 2
    /\ \E i \in 1..Len(old_memories) :
           /\ IdNumber(ExistingIds(old_memories)[i]) = Len(old_memories) + 1
           /\ IdNumber(memory_data[1]["id"]) > Len(old_memories) + 1

\* the records a new agent would load from the file as it is now
Reloaded ==
    LoadMemories(disk, clock).memories

\* C13: after a successful add_new_memory(M), reloading the store from the file
\* yields a last record equal to M in every field M supplied, with id and
\* timestamp present as well, and all earlier records as before the insert.
C13_RoundTrip ==
    (AddReturned /\ added = <<TRUE>>)
        => /\ Len(Reloaded) = Len(old_memories) + 1
           /\ \A k \in DOMAIN argument[1] :
                  /\ k \in DOMAIN Reloaded[Len(Reloaded)]
                  /\ Reloaded[Len(Reloaded)][k] = argument[1][k]
           /\ {"id", "timestamp"} \subseteq DOMAIN Reloaded[Len(Reloaded)]
           /\ \A i \in 1..Len(old_memories) : Reloaded[i] = old_memories[i]

\* a successful insert, into a store that held records, of a record that came
\* with a meta block and without id and timestamp
C13_Witness ==
    /\ AddReturned
    /\ added = <<TRUE>>
    /\ Len(old_memories) >= 1
    /\ "meta" \in DOMAIN argument[1]
    /\ {"id", "timestamp"} \cap DOMAIN argument[1] = {}
    /\ Reloaded[Len(Reloaded)] = memory_data[1]

(***************************************************************************)
(* Properties of retrieve_relevant_memories (specification SpecRetrieve).  *)
(***************************************************************************)
\* retrieve_relevant_memories has returned and the caller has not yet gone on
RetrieveReturned ==
    pc = "returned" /\ added = <<>>

Store ==
    Get(memories, "memories", <<>>)

\* the record at position i of the store is among the records returned
Returned(i) ==
    \E n \in 1..Len(result) : result[n] = i

\* the position in the result of the record at position i of the store
PlaceOf(i) ==
    CHOOSE n \in 1..Len(result) : result[n] = i

\* no lower-cased whitespace-delimited term of q is a substring of the
\* lower-cased content, title, emotional signature or any entity of record r
NoTermOccurs(q, r) ==
    \A n \in 1..Len(Split(Lower(q))) :
        LET term == Split(Lower(q))[n]
        IN  /\ ~Contains(term, Lower(Get(r, "content", <<>>)))
            /\ ~Contains(term, Lower(Get(r, "title", <<>>)))
            /\ ~Contains(term, Lower(Get(r, "emotional_signature", <<>>)))
            /\ \A e \in 1..Len(Get(r, "associated_entities", <<>>)) :
                   ~Contains(term, Lower(r["associated_entities"][e]))

\* C4: a record none of whose fields contains a term of the query is not in
\* the result, whatever the limit.
C4_UnmatchedRecordAbsent ==
    RetrieveReturned =>
        \A i \in 1..Len(Store) : NoTermOccurs(query, Store[i]) => ~Returned(i)

\* a retrieval that returned a record although the record stored before it
\* matches no term of the query and the limit left room for it
C4_Witness ==
    /\ RetrieveReturned
    /\ QueryTerms(query) # {}
    /\ Len(result) < limit
    /\ \E i, j \in 1..Len(Store) :
           /\ i < j
           /\ NoTermOccurs(query, Store[i])
           /\ Returned(j)

\* the raw score of the record at position i of the store for the query
RawOf(i) ==
    RawScore(QueryTerms(query), Store[i])

\* the positions of the records whose score is positive
Positive ==
    {i \in 1..Len(Store) : RawOf(i) > 0}

\* C5: for every limit >= 0 the result is exactly the first
\* min(limit, number of positively scored records) records of the positively
\* scored records ordered by descending scaled score, equal scores in store
\* order.
C5_TopOfStableDescendingOrder ==
    RetrieveReturned =>
        LET hits == relevant_memories
            pos  == Positive
        IN  /\ Len(hits) = Cardinality(pos)
            /\ {hits[n].memory : n \in 1..Len(hits)} = pos
            /\ \A n \in 1..Len(hits) :
                   hits[n].relevance =
                       ScaledScore(RawOf(hits[n].memory), Priority(Store[hits[n].memory]))
            /\ \A a, b \in 1..Len(hits) :
                   a < b => /\ ~FloatLess(hits[a].relevance, hits[b].relevance)
                            /\ hits[a].relevance = hits[b].relevance
                                   => hits[a].memory < hits[b].memory
            /\ Len(result) = IF limit < Len(hits) THEN limit ELSE Len(hits)
            /\ \A n \in 1..Len(result) : result[n] = hits[n].memory

\* a retrieval cut short by its limit, over records two of which tie
C5_Witness ==
    /\ RetrieveReturned
    /\ limit > 0
    /\ limit < Len(relevant_memories)
    /\ \E a, b \in 1..Len(relevant_memories) :
           /\ a < b
           /\ relevant_memories[a].relevance = relevant_memories[b].relevance
           /\ Returned(relevant_memories[a].memory)
           /\ ~Returned(relevant_memories[b].memory)

\* the set of the whitespace-delimited terms of q, each in lower case
TermSetOf(q) ==
    {Lower(Split(q)[n]) : n \in 1..Len(Split(q))}

\* C21: a query with the same set of lower-cased terms as the query made
\* (a term repeated, the terms in another order, another letter case) gives
\* every record the same score and gives the same list.
C21_ResultDependsOnTermSet ==
    RetrieveReturned =>
        \A q \in Queries :
            TermSetOf(q) = TermSetOf(query)
                => /\ SortedRelevantMemories(Store, q) = relevant_memories
                   /\ TopMemories(SortedRelevantMemories(Store, q), limit) = result

\* a retrieval that returned records, and another query that repeats a term,
\* has the terms in another order and in another letter case
C21_Witness ==
    /\ RetrieveReturned
    /\ query = Q_joy_ai
    /\ result # <<>>
    /\ Len(relevant_memories) >= 2
    /\ TermSetOf(Q_AI_Joy_ai) = TermSetOf(query)
    /\ Split(Lower(Q_AI_Joy_ai)) # Split(Lower(query))

\* the terms of the query made that occur in the lower-cased field k of r
TermsIn(r, k) ==
    {t \in TermSetOf(query) : Contains(t, Lower(Get(r, k, <<>>)))}

\* the terms of the query made that occur in at least one entity of r
TermsInEntities(r) ==
    {t \in TermSetOf(query) :
        \E e \in 1..Len(Get(r, "associated_entities", <<>>)) :
            Contains(t, Lower(r["associated_entities"][e]))}

\* 2 per term in the content, 3 per term in the title, 1 per term in the
\* emotional signature, 2 per term in some entity
WeightedMatches(r) ==
    2 * Cardinality(TermsIn(r, "content"))
      + 3 * Cardinality(TermsIn(r, "title"))
      + Cardinality(TermsIn(r, "emotional_signature"))
      + 2 * Cardinality(TermsInEntities(r))

\* C22: the raw score of a record is 2 per term found in its content, 3 per
\* term found in its title, 1 per term found in its emotional signature and
\* 2 per term found in at least one of its entities, however many entities
\* hold the term; it is at most 8 times the number of distinct terms. The
\* records scored are those whose raw score is positive, each with its raw
\* score scaled by its priority.
C22_RawScoreWeights ==
    RetrieveReturned =>
        \A i \in 1..Len(Store) :
            /\ WeightedMatches(Store[i]) <= 8 * Cardinality(TermSetOf(query))
            /\ WeightedMatches(Store[i]) > 0
                  <=> \E n \in 1..Len(relevant_memories) :
                          relevant_memories[n].memory = i
            /\ \A n \in 1..Len(relevant_memories) :
                   relevant_memories[n].memory = i
                       => relevant_memories[n].relevance
                            = ScaledScore(WeightedMatches(Store[i]),
                                          Priority(Store[i]))

\* a record scored for a term that two of its entities hold
C22_Witness ==
    /\ RetrieveReturned
    /\ \E n \in 1..Len(relevant_memories) :
           LET r == Store[relevant_memories[n].memory]
           IN  /\ "associated_entities" \in DOMAIN r
               /\ \E t \in TermSetOf(query) :
                      Cardinality({e \in 1..Len(r["associated_entities"]) :
                          Contains(t, Lower(r["associated_entities"][e]))}) >= 2
               /\ relevant_memories[n].relevance
                      = ScaledScore(WeightedMatches(r), Priority(r))

\* C23: no step of the agent removes, moves or changes a record of the store;
\* a step that changes the store puts one record, the one being inserted,
\* behind the others and sets last_updated to the time of the insert, later
\* than it was.
C23_AppendOnly ==
    [][/\ Len(Store') >= Len(Store)
       /\ \A i \in 1..Len(Store) : Store'[i] = Store[i]
       /\ Store' # Store =>
              /\ Store' = Append(Store, memory_data'[1])
              /\ memories'.last_updated = clock' - 1
              /\ memories'.last_updated > memories.last_updated]_vars

\* a successful insert behind a record that was there, followed by a retrieval
C23_Witness ==
    /\ RetrieveReturned
    /\ Len(Store) >= 2
    /\ result # <<>>
    /\ memories.last_updated = clock - 1
    /\ \A i \in 1..Len(old_memories) : Store[i] = old_memories[i]

\* the store holds the single record of the example
C9_Scenario ==
    /\ RetrieveReturned
    /\ query = Q_AI_consciousness
    /\ limit >= 1
    /\ Len(Store) = 1
    /\ Get(Store[1], "title", <<>>) = S_AI_Consciousness_Musings
    /\ Get(Store[1], "content", <<>>) = S_musings_on_AI
    /\ Get(Store[1], "associated_entities", <<>>) = <<S_Airth>>
    /\ Get(Store[1], "emotional_signature", <<>>) = <<>>
    /\ Priority(Store[1]) = 8

\* C9 as stated: for the query "AI consciousness" and the single record
\* "AI Consciousness Musings" / "musings on AI" / ["Airth"] / priority 8 the
\* raw score is 8, the scaled score is 12.8, and the record is returned.
C9_RawEightScaledTwelvePointEight ==
    C9_Scenario =>
        /\ RawOf(1) = 8
        /\ Len(relevant_memories) = 1
        /\ relevant_memories[1].relevance = FloatDiv(64, 5)
        /\ result = <<1>>

\* C9 amended: in that scenario the raw score is 10 (6 from the title, 2 from
\* the content, 2 from the entity "Airth", which contains "ai"), the scaled
\* score is 10 * 8/5 = 16.0, and the record is returned.
C9_RawTenScaledSixteen ==
    C9_Scenario =>
        /\ RawOf(1) = 10
        /\ Len(relevant_memories) = 1
        /\ relevant_memories[1].relevance = FloatOfInt(16)
        /\ result = <<1>>

C9_Witness ==
    C9_Scenario /\ result = <<1>>

\* the double x is the rational n / d rounded, give or take one unit in the
\* last place
NearRational(x, n, d) ==
    \/ x = FloatDiv(n, d)
    \/ x = FloatSucc(FloatDiv(n, d))
    \/ x = FloatPred(FloatDiv(n, d))

\* C10 as stated: a record with non-zero raw score r and priority p has the
\* scaled relevance r * p / 5, the quotient of the product r * p by 5 rounded to
\* a double; of two records with the same raw score and priorities p and 2p the
\* second has exactly twice the scaled score of the first.
C10_ScaledIsQuotient ==
    RetrieveReturned =>
        LET hits == relevant_memories
            rec(a) == Store[hits[a].memory]
        IN  \A a \in 1..Len(hits) :
              LET r == RawOf(hits[a].memory)
              IN  /\ hits[a].relevance = FloatDiv(r * Priority(rec(a)), 5)
                  /\ \A b \in 1..Len(hits) :
                         (Priority(rec(b)) = 2 * Priority(rec(a))
                              /\ RawOf(hits[b].memory) = r)
                             => hits[b].relevance = FloatDouble(hits[a].relevance)

\* C10 amended: a record with non-zero raw score r and priority p (5 when meta
\* or priority_level is absent) has as scaled relevance the double product of r
\* and the double p / 5, which is r * p / 5 give or take one unit in the last
\* place and is r itself at priority 5; of two records with the same raw score
\* and priorities p and 2p the second has exactly twice the scaled score of the
\* first and ranks before it.
C10_PriorityScaling ==
    RetrieveReturned =>
        LET hits == relevant_memories
            rec(a) == Store[hits[a].memory]
        IN  \A a \in 1..Len(hits) :
              LET r == RawOf(hits[a].memory)
              IN  /\ NearRational(hits[a].relevance, r * Priority(rec(a)), 5)
                  /\ ("meta" \notin DOMAIN rec(a)
                          \/ "priority_level" \notin DOMAIN rec(a)["meta"]
                          \/ rec(a)["meta"]["priority_level"] = 5)
                         => hits[a].relevance = FloatOfInt(r)
                  /\ \A b \in 1..Len(hits) :
                         (Priority(rec(b)) = 2 * Priority(rec(a))
                              /\ RawOf(hits[b].memory) = r)
                             => /\ hits[b].relevance = FloatDouble(hits[a].relevance)
                                /\ b < a
                                /\ Returned(hits[a].memory)
                                       => /\ Returned(hits[b].memory)
                                          /\ PlaceOf(hits[b].memory)
                                                 < PlaceOf(hits[a].memory)

\* a record of priority 2p stored behind a record of priority p with the same
\* raw score and returned before it, next to a record without a meta block
C10_Witness ==
    /\ RetrieveReturned
    /\ Len(result) = 3
    /\ \E i, j \in 1..Len(Store) :
           /\ i < j
           /\ Priority(Store[j]) = 2 * Priority(Store[i])
           /\ RawOf(j) = RawOf(i)
           /\ Returned(i)
           /\ Returned(j)
           /\ PlaceOf(j) < PlaceOf(i)
    /\ \E k \in 1..Len(Store) : Returned(k) /\ "meta" \notin DOMAIN Store[k]

(***************************************************************************)
(* Properties of generate_seo_optimized_news_content (specification        *)
(* SpecSeo).                                                               *)
(***************************************************************************)
\* the article has a non-empty title and a non-empty description
HasTitleAndDescription(a) ==
    /\ "title" \in DOMAIN a /\ Len(a["title"]) > 0
    /\ "description" \in DOMAIN a /\ Len(a["description"]) > 0

\* C7 as stated: for every non-empty candidate list the article returned has a
\* non-empty title and a non-empty description.
C7_NeverReturnsInvalidArticle ==
    (seo_pc = "done" /\ articles # <<>>)
        => /\ best # <<>>
           /\ HasTitleAndDescription(articles[best[1]])

\* C7 amended: whenever at least one candidate has a non-empty title and a
\* non-empty description, the article returned has both.
C7_ReturnsValidArticleWhenOneExists ==
    (seo_pc = "done" /\ \E i \in 1..Len(articles) : HasTitleAndDescription(articles[i]))
        => /\ best # <<>>
           /\ HasTitleAndDescription(articles[best[1]])

\* the selector passed over a first candidate that lacks a description
C7_Witness ==
    /\ seo_pc = "done"
    /\ Len(articles) >= 2
    /\ articles[1] = ArtNoDescription
    /\ best # <<>>
    /\ best[1] > 1
    /\ HasTitleAndDescription(articles[best[1]])

\* C8: when no candidate has both a non-empty title and a non-empty
\* description no article is scored and the first article of the input is
\* returned; when the input list is empty the result is None.
C8_FallbackToFirstArticle ==
    seo_pc = "done" =>
        /\ (articles # <<>>
              /\ \A i \in 1..Len(articles) : ~HasTitleAndDescription(articles[i]))
               => (best = <<1>> /\ scored_articles = <<>>)
        /\ articles = <<>> => best = <<>>

\* two candidates, neither valid: the first one came back unscored
C8_Witness ==
    /\ seo_pc = "done"
    /\ Len(articles) >= 2
    /\ articles[1] # articles[2]
    /\ \A i \in 1..Len(articles) : ~HasTitleAndDescription(articles[i])
    /\ best = <<1>>
    /\ scored_articles = <<>>

\* the candidate at position i of the input was scored
Scored(i) ==
    \E n \in 1..Len(scored_articles) : scored_articles[n].article = i

\* the score the selector gave the candidate at position i
ScoreOf(i) ==
    scored_articles[CHOOSE n \in 1..Len(scored_articles) :
                        scored_articles[n].article = i].score

\* what the candidate at position i scores for its topics, its geo keywords
\* and its image
SignalScore(i) ==
    LET article_title == Lower(Get(articles[i], "title", <<>>))
        article_description == Lower(Get(articles[i], "description", <<>>))
    IN  TrendingScore(article_title, article_description)
          + GeoScore(geo_target, article_title, article_description)
          + ImageBonus(articles[i])

\* the band of a length n: 5 above 1500, 3 above 800, 1 above 400, 0 otherwise
BandOf(n) ==
    CHOOSE b \in {0, 1, 3, 5} :
        /\ b = 5 <=> n > 1500
        /\ b = 3 <=> (800 < n /\ n <= 1500)
        /\ b = 1 <=> (400 < n /\ n <= 800)
        /\ b = 0 <=> n <= 400

\* the length the content-length bonus goes by: of the content when there is
\* some, of the description otherwise
BonusLength(a) ==
    IF "content" \in DOMAIN a /\ Len(a["content"]) > 0
    THEN Len(a["content"])
    ELSE Len(a["description"])

\* C11: a scored article receives the +2 title-length bonus if and only if the
\* length L of its title satisfies 30 <= L <= 60; lengths 30 and 60 receive
\* it, lengths 29 and 61 do not.
C11_TitleLengthBonus ==
    seo_pc = "done" =>
        \A i \in 1..Len(articles) :
            Scored(i) =>
                LET L == Len(articles[i]["title"])
                    bonus == ScoreOf(i) - SignalScore(i)
                                 - BandOf(BonusLength(articles[i]))
                IN  /\ bonus \in {0, 2}
                    /\ bonus = 2 <=> (30 <= L /\ L <= 60)

\* C12: the content-length bonus of a scored article is the one of 0, 1, 3, 5
\* that the band of the length n of its content, or of its description when
\* the content is empty or absent, gives; of two articles that differ in their
\* content alone the one with the greater n never scores lower.
C12_ContentLengthBands ==
    seo_pc = "done" =>
        \A i \in 1..Len(articles) :
            Scored(i) =>
                /\ ScoreOf(i) - SignalScore(i)
                       - TitleLengthBonus(Lower(articles[i]["title"]))
                     = BandOf(BonusLength(articles[i]))
                /\ \A j \in 1..Len(articles) :
                       (/\ Scored(j)
                        /\ articles[i]["title"] = articles[j]["title"]
                        /\ articles[i]["description"] = articles[j]["description"]
                        /\ Truthy(articles[i], "image_url")
                               = Truthy(articles[j], "image_url")
                        /\ BonusLength(articles[i]) <= BonusLength(articles[j]))
                           => ScoreOf(i) <= ScoreOf(j)

\* an article without content whose description of 801 characters gives the
\* bonus 3, next to the same article with a content of 1501 characters, which
\* gives the bonus 5
C12_Witness ==
    /\ seo_pc = "done"
    /\ Len(articles) = 2
    /\ "content" \notin DOMAIN articles[1]
    /\ "description" \in DOMAIN articles[1]
    /\ Len(articles[1]["description"]) = 801
    /\ "content" \in DOMAIN articles[2]
    /\ Len(articles[2]["content"]) = 1501
    /\ ScoreOf(2) = ScoreOf(1) + 2

\* C20: among the valid candidates the selector returns one with the highest
\* SEO score, and of several with the highest score the first of the input.
C20_ReturnsFirstOfHighestScore ==
    (seo_pc = "done" /\ \E i \in 1..Len(articles) : HasTitleAndDescription(articles[i]))
        => /\ best # <<>>
           /\ HasTitleAndDescription(articles[best[1]])
           /\ Scored(best[1])
           /\ \A i \in 1..Len(articles) :
                  HasTitleAndDescription(articles[i])
                      => /\ Scored(i)
                         /\ ScoreOf(i) <= ScoreOf(best[1])
                         /\ i < best[1] => ScoreOf(i) < ScoreOf(best[1])

\* two different valid candidates share the highest score, behind a first
\* candidate that is not valid: the earlier of the two came back
C20_Witness ==
    /\ seo_pc = "done"
    /\ best # <<>>
    /\ best[1] >= 2
    /\ ~HasTitleAndDescription(articles[1])
    /\ HasTitleAndDescription(articles[best[1]])
    /\ \E j \in (best[1] + 1)..Len(articles) :
           /\ HasTitleAndDescription(articles[j])
           /\ articles[j] # articles[best[1]]
           /\ ScoreOf(j) = ScoreOf(best[1])

\* the rows of the table for the upper-cased geo target
GeoRows ==
    {i \in 1..Len(GeoKeywordTable) : GeoKeywordTable[i][1] = Upper(geo_target)}

\* the keyword list the geo target stands for: its row of the table, or the
\* target itself as passed
GeoKeywordsOfTarget ==
    IF GeoRows = {}
    THEN <<geo_target>>
    ELSE GeoKeywordTable[CHOOSE i \in GeoRows : TRUE][2]

\* what the candidate at position i scores apart from its geo keywords
NonGeoScore(i) ==
    LET article_title == Lower(Get(articles[i], "title", <<>>))
        article_description == Lower(Get(articles[i], "description", <<>>))
    IN  TrendingScore(article_title, article_description)
          + TitleLengthBonus(article_title)
          + ImageBonus(articles[i])
          + ContentLengthBonus(ContentLength(articles[i]))

\* the keywords of the target that occur, lower-cased, in the lower-cased text
GeoHits(text) ==
    {k \in 1..Len(GeoKeywordsOfTarget) :
        Contains(Lower(GeoKeywordsOfTarget[k]), Lower(text))}

\* C24: without a geo target no article scores for geo keywords; with one, an
\* article scores 4 per keyword in its lower-cased title and 2 per keyword in
\* its lower-cased description, the keywords being the table row of the
\* upper-cased code or, for a code without a row, the code itself as passed.
C24_GeoScoring ==
    seo_pc = "done" =>
        /\ geo_target # <<>>
               => GetGeoSpecificKeywords(geo_target) = GeoKeywordsOfTarget
        /\ \A i \in 1..Len(articles) :
               Scored(i) =>
                   ScoreOf(i) - NonGeoScore(i)
                     = IF geo_target = <<>>
                       THEN 0
                       ELSE 4 * Cardinality(GeoHits(articles[i]["title"]))
                          + 2 * Cardinality(GeoHits(articles[i]["description"]))

\* a lower-case code with a row in the table, and an article scored for one of
\* the keywords of the row
C24_Witness ==
    /\ seo_pc = "done"
    /\ geo_target = G_us
    /\ Len(GeoKeywordsOfTarget) = 4
    /\ \E i \in 1..Len(articles) :
           /\ Scored(i)
           /\ ScoreOf(i) - NonGeoScore(i) = 4

(***************************************************************************)
(* Properties of the command-line scripts (specification SpecCli).         *)
(***************************************************************************)
\* C14: every script ends with exit code 0 when the result of its workflow is
\* a success and with exit code 1 when it is a failure.
C14_ExitCodeFollowsResult ==
    cli_pc = "exited" =>
        exit_code = IF Succeeded(wf_result[1]) THEN <<0>> ELSE <<1>>

\* C16 as stated: within one run of the daily news workflow the publishing
\* operation is invoked at most once.
C16_PublishInvokedAtMostOnce ==
    cli.script = "daily" => Len(calls) <= 1

\* C16 amended: within one run of the daily news workflow the publishing
\* operation is invoked at most three times; it is invoked again only after an
\* attempt that failed, so a run that ends after fewer than three invocations
\* ends on a success, and a run that ends on a failure has made all three.
C16_PublishRetriedUpToThreeTimes ==
    cli.script = "daily" =>
        /\ Len(calls) <= 3
        /\ wf.post_success => cli_pc \in {"returned", "exited"}
        /\ (cli_pc \in {"returned", "exited"} /\ calls # <<>>)
               => /\ Succeeded(wf_result[1]) <=> wf.post_success
                  /\ ~wf.post_success <=> (wf.attempts = 3 /\ Len(calls) = 3)

\* a run of the daily workflow that published at the third attempt
C16_Witness ==
    /\ cli.script = "daily"
    /\ cli_pc = "exited"
    /\ Len(calls) = 3
    /\ wf.post_success
    /\ Succeeded(wf_result[1])

\* C19: airth_first_post run with --publish creates the post with status
\* "publish", and without the flag with status "draft".
C19_PublishFlagSetsStatus ==
    cli.script = "first_post" =>
        \A i \in 1..Len(calls) :
            calls[i].status = IF cli.publish THEN "publish" ELSE "draft"

(***************************************************************************)
(* Properties of the WordPressAgent.                                       *)
(***************************************************************************)

\* a result that reports a failure: success is false and an error is given
FlaggedFailure(r) ==
    /\ "success" \in DOMAIN r
    /\ r.success = FALSE
    /\ "error" \in DOMAIN r

\* C15: no public operation lets an exception reach its caller, and every
\* result of create_post that is not a success carries success = false and an
\* error: also when the API URL is not configured, when the probe is called
\* without credentials and when the agent is built on an unreadable config.
C15_NoRaiseFailuresFlagged ==
    /\ ~wp_raised
    /\ (wp_pc = "returned" /\ wp_op = "create_post" /\ ~Succeeded(wp_ret[1]))
         => FlaggedFailure(wp_ret[1])

\* C17: the probe tries the variants in their fixed order; it returns the
\* first response with status 200 or 201, and when no variant succeeds it
\* returns the response of the last variant attempted.
C17_FirstSuccessElseLastAttempt ==
    /\ \A i \in 1..Len(wp_attempts) : wp_attempts[i].method = AuthMethods[i]
    /\ (wp_pc = "returned" /\ wp_op = "probe") =>
         LET n == Len(wp_attempts)
             ok == {i \in 1..n : ~wp_attempts[i].raised
                                   /\ wp_attempts[i].status \in {200, 201}}
         IN  /\ ok # {} => /\ ok = {n}
                           /\ wp_ret = <<wp_attempts[n]>>
             /\ ok = {} => /\ n = Len(AuthMethods)
                           /\ ~wp_attempts[n].raised
                           /\ wp_ret = <<wp_attempts[n]>>

(***************************************************************************)
(* Properties of two processes on one file.                                *)
(***************************************************************************)

\* both processes loaded the same document, and each has made one insert
\* that wrote the file and returned True
BothInserted ==
    /\ other_loaded = loaded
    /\ pc \in {"idle", "returned"}
    /\ Len(writes) = 2
    /\ WritesOf("this") = 1
    /\ WritesOf("other") = 1
    /\ writes[1].returned
    /\ writes[2].returned

\* the records of the document both processes loaded
LoadedRecords ==
    LoadMemories(loaded[1], 0).memories

\* C18: when two processes have loaded the same document and each has made
\* one successful insert, the file holds the loaded records and the record of
\* the later writer only, and two ids generated by the processes are the same.
C18_LostUpdate ==
    BothInserted
        => /\ Reloaded = Append(LoadedRecords, writes[2].memory_data)
           /\ (writes[1].auto_id /\ writes[2].auto_id)
                  => writes[1].memory_data["id"] = writes[2].memory_data["id"]

\* two different records inserted without ids into a store that held a record:
\* the earlier one is not in the file, and both carry the same generated id
C18_Witness ==
    /\ BothInserted
    /\ Len(LoadedRecords) >= 1
    /\ writes[1].auto_id
    /\ writes[2].auto_id
    /\ writes[1].memory_data # writes[2].memory_data
    /\ writes[1].memory_data["id"] = writes[2].memory_data["id"]
    /\ Len(Reloaded) = Len(LoadedRecords) + 1
    /\ \A i \in 1..Len(Reloaded) : Reloaded[i] # writes[1].memory_data

(***************************************************************************)
(* Properties of process_memory_from_text (specification SpecPm).          *)
(***************************************************************************)

\* C25: process_memory_from_text does not raise and always returns a
\* structured memory record; for a generated text that is not parseable JSON
\* the record is the fallback: type the hint or "personal", title
\* "Unprocessed Memory", content the text cut to 100 characters plus "..."
\* when it is longer, priority 5.
C25_AlwaysMemoryRecord ==
    pm_pc = "returned" =>
        /\ ~pm_ret.raised
        /\ pm_ret.type = "dict"
        /\ JsonLoadsKind(pm_generated) = "JSONDecodeError" =>
               /\ pm_ret.memory # <<>>
               /\ LET m == pm_ret.memory[1]
                  IN  /\ m["type"] = IF pm_hint \in {<<>>, << <<>> >>}
                                     THEN S_personal ELSE pm_hint[1]
                      /\ m["title"] = S_Unprocessed_Memory
                      /\ m["content"] = IF Len(pm_text) > 100
                                        THEN SubSeq(pm_text, 1, 100) \o <<".", ".", ".">>
                                        ELSE pm_text
                      /\ m["meta"]["priority_level"] = 5

(***************************************************************************)
(* Properties of fetch_articles_with_retry (specification SpecFetch).      *)
(***************************************************************************)

\* the call of airth.fetch_news numbered k gave a list with articles
Yielded(k) ==
    ~fr_calls[k].raised /\ fr_calls[k].articles # <<>>

FetchBounded ==
    /\ Len(fr_calls) <= MAX_RETRIES
    /\ \A k \in 1..Len(fr_calls) :
           /\ fr_calls[k].country = fr_args.country
           /\ fr_calls[k].max_results = fr_args.max_results
    /\ \A k \in 1..(Len(fr_calls) - 1) : ~Yielded(k)
    /\ fr_pc = "loop" => \A k \in 1..Len(fr_calls) : ~Yielded(k)
    /\ fr_pc = "returned" =>
           LET n == Len(fr_calls)
           IN  /\ n >= 1
               /\ fr_ret # <<>>
               /\ ~fr_ret[1].raised
               /\ IF Yielded(n)
                  THEN fr_ret[1].articles = fr_calls[n].articles
                  ELSE n = MAX_RETRIES /\ fr_ret[1].articles = <<>>

\* C26: fetch_articles_with_retry returns after at most MAX_RETRIES calls of
\* the fetch service: with the first list that has articles, as soon as a
\* call gives one, and with the empty list when MAX_RETRIES calls raised or
\* gave nothing; a call that raises counts as one and nothing is raised.
C26_ReturnsWithinMaxRetries ==
    /\ []FetchBounded
    /\ <>(fr_pc = "returned")

\* the third call gave articles after one call that raised and one that gave
\* nothing
C26_Witness ==
    /\ fr_pc = "returned"
    /\ Len(fr_calls) = 3
    /\ fr_calls[1].raised
    /\ ~fr_calls[2].raised
    /\ fr_calls[2].articles = <<>>
    /\ fr_ret[1].articles = fr_calls[3].articles
    /\ fr_ret[1].articles # <<>>

(***************************************************************************)
(* Properties of the scheduler (specification SpecSched).                  *)
(***************************************************************************)

\* C27: when the news workflow of the first run ended with a failure result,
\* schedule_daily_news runs the news task a second time, with the same region
\* and the category "tech"; when the first run succeeded there is no second.
C27_FailedRunIsRetriedWithTech ==
    sch_pc = "returned" =>
        /\ sch_runs[1].workflow = "failure"
               => /\ Len(sch_runs) = 2
                  /\ sch_runs[2].region = sch_runs[1].region
                  /\ sch_runs[2].category = "tech"
        /\ sch_runs[1].workflow = "success" => Len(sch_runs) = 1

\* C30: every category the scheduler passes to the news workflow, drawn or
\* the fixed "tech", is the name of an entry of PRIORITIZED_CATEGORIES:
\* get_category_keywords finds it and does not fall back.
C30_ScheduledCategoryIsKnown ==
    /\ sch_pc \in {"first", "second", "returned"}
           => ~GetCategoryKeywords(sch_category).fallback
    /\ \A k \in 1..Len(sch_runs) :
           /\ ~sch_runs[k].keywords.fallback
           /\ PRIORITIZED_CATEGORIES[sch_runs[k].keywords.entry]
                  = sch_runs[k].category

\* a first run with the occasional category "sports" that ended on an error,
\* and the second run with "tech"
C30_Witness ==
    /\ sch_pc = "returned"
    /\ Len(sch_runs) = 2
    /\ sch_runs[1].category = "sports"
    /\ sch_runs[1].keywords.entry = 10
    /\ sch_runs[2].category = "tech"
    /\ sch_runs[2].keywords.entry = 1

(***************************************************************************)
(* Properties of the fallback categories (specification SpecCli).          *)
(***************************************************************************)

\* C28: after a fetch that yielded nothing the workflow goes on to the next
\* entry of PRIORITIZED_CATEGORIES in table order, passing over the requested
\* category (the entry whose keywords the first fetch used) and no other; it
\* leaves the loop at the first category that yields articles; and when
\* every category came back empty it returns a failure result with no
\* article scored and no post attempted.
C28_FallbackInPriorityOrder ==
    [][(cli_pc = "fetch" /\ cli.script = "daily") =>
          LET i == wf.category_index
              j == wf'.category_index
              names == PRIORITIZED_CATEGORIES
              asked == GetCategoryKeywords(cli.category)
              Requested(k) == ~asked.fallback /\ asked.entry = k
          IN  /\ j # i =>
                    /\ wf.attempts + 1 = MAX_RETRIES
                    /\ cli_pc' = "fetch"
                    /\ j \in (i + 1)..Len(names)
                    /\ ~Requested(j)
                    /\ \A k \in (i + 1)..(j - 1) : Requested(k)
              /\ cli_pc' = "select" =>
                    /\ j = i
                    /\ wf'.articles # <<>>
              /\ cli_pc' = "returned" =>
                    /\ j = i
                    /\ \A k \in (i + 1)..Len(names) : Requested(k)
                    /\ wf_result' = <<FailureResult>>
                    /\ ~Succeeded(wf_result'[1])
                    /\ wf'.article = <<>>
                    /\ calls' = <<>>]_vars

\* the same with the requested category taken to be the entry whose name is
\* spelled exactly as the category was passed
C28_FallbackSkipsExactName ==
    [][(cli_pc = "fetch" /\ cli.script = "daily") =>
          LET i == wf.category_index
              j == wf'.category_index
              names == PRIORITIZED_CATEGORIES
          IN  /\ j # i =>
                    /\ wf.attempts + 1 = MAX_RETRIES
                    /\ cli_pc' = "fetch"
                    /\ j \in (i + 1)..Len(names)
                    /\ names[j] # cli.category
                    /\ \A k \in (i + 1)..(j - 1) : names[k] = cli.category
              /\ cli_pc' = "select" =>
                    /\ j = i
                    /\ wf'.articles # <<>>
              /\ cli_pc' = "returned" =>
                    /\ j = i
                    /\ \A k \in (i + 1)..Len(names) : names[k] = cli.category
                    /\ wf_result' = <<FailureResult>>
                    /\ wf'.article = <<>>
                    /\ calls' = <<>>]_vars

\* the requested category "tech" and the second entry yielded nothing, the
\* third entry yielded articles and the workflow went on to select one
C28_Witness ==
    /\ cli_pc = "select"
    /\ cli.script = "daily"
    /\ cli.category = "tech"
    /\ wf.category_index = 3
    /\ wf.articles # <<>>

\* every category came back empty for the requested category "tech"
C28_WitnessExhausted ==
    /\ cli_pc = "returned"
    /\ cli.script = "daily"
    /\ cli.config_ok
    /\ cli.category = "tech"
    /\ wf.category_index = Len(PRIORITIZED_CATEGORIES)
    /\ wf_result = <<FailureResult>>

(***************************************************************************)
(* Properties of create_blog_post (specification SpecCli).                 *)
(***************************************************************************)

\* the store holds the memory of the blog post
HasBlogMemory ==
    \E i \in 1..Len(Get(memories, "memories", <<>>)) :
        LET m == memories["memories"][i]
        IN  "title" \in DOMAIN m /\ m["title"] = BlogMemory.title

\* C29: create_blog_post records the memory of the post exactly when the
\* publishing call reported success; the memory is recorded after the post
\* was made, not before; and the value returned is what the publishing call
\* returned, whether or not the memory reached the file.
C29_MemoryIffPublished ==
    cli.script = "first_post" =>
        /\ cli_pc \in {"main", "blog"} => ~HasBlogMemory
        /\ cli_pc = "remember" =>
               /\ ~HasBlogMemory
               /\ Len(calls) = 1
               /\ calls[1].op = "create_airth_post"
               /\ Succeeded(wf.post_result[1])
        /\ cli_pc \in {"returned", "exited"} =>
               /\ HasBlogMemory <=> /\ wf.post_result # <<>>
                                    /\ Succeeded(wf.post_result[1])
               /\ HasBlogMemory => Len(calls) = 1
               /\ wf.post_result # <<>> => wf.result = wf.post_result

\* the post succeeded, the memory was recorded but its write failed, and the
\* result of the post was returned
C29_Witness ==
    /\ cli.script = "first_post"
    /\ cli_pc = "returned"
    /\ HasBlogMemory
    /\ disk = EmptyFile
    /\ wf.result = <<SuccessResult>>

====
